---- MODULE Spec2Model ----
(***************************************************************************)
(* Job lifecycle engine of cloud-viewer (apps/api): the job collection,    *)
(* the submit routes (routes/process.py, routes/projects.py), the worker   *)
(* loop (worker.py), the two conversion pipelines, the cancel routes       *)
(* (routes/jobs.py), the project routes that write the project collection  *)
(* (routes/projects.py), the startup stale sweep (main.py) and the         *)
(* retention sweep (storage/db.py).                                        *)
(*                                                                         *)
(* Every call that changes the job collection, the project collection or   *)
(* the blob container is one step of the process or request that makes it; *)
(* reads and local computation are folded into a neighbouring step.        *)
(***************************************************************************)
EXTENDS Integers, FiniteSets, Sequences, TLC

\* ---------------------------------------------------------------- bounds
NumJobs == 2
NumWorkers == 2
NumSharedJobs == 1
NumProjects == 1
MaxTicks == 1

JobIds == 1..NumJobs
Workers == 1..NumWorkers
ProjectIds == 1..NumProjects

\* ------------------------------------------------------- program constants
RetentionHours == 72
cleanup_interval_hours == 1

\* the unit of the clock: Hour units make one hour, so that times less than
\* cleanup_interval_hours apart can differ
Hour == 2

\* One tick of the clock is a gap longer than the retention window, so that a
\* job written before a tick is expired after it.
TickHours == RetentionHours + 1
MaxTime == MaxTicks * TickHours * Hour

None == "None"
NoTime == 0 - 1
NoJob == [id |-> 0]
NoOrtho == [url |-> None, thumbnail |-> None, bounds |-> None]
NoProject == [id |-> 0]
NoResponse == [job_id |-> 0, code |-> 0]
NoRequest == [op |-> "none"]
NoCancel ==
    [stage |-> "idle", project_id |-> 0, todo |-> {}, cancelled_at |-> NoTime,
     total |-> 0, cancelled_jobs |-> {}, skipped_count |-> 0]

JobTypes == {"point_cloud", "ortho_conversion"}
Terminal == {"completed", "failed", "cancelled"}

VARIABLES
    jobs,        \* jobsCollection: job id -> document
    projects,    \* projectsCollection: project id -> document
    next_id,     \* ids handed out so far by uuid4 (fresh ids)
    now,         \* datetime.utcnow(), in units of the clock
    pc,          \* worker process -> position in startup / loop / pipeline
    wjob,        \* worker -> the Job object returned by get_next_job
    wproject,    \* worker -> process_job's local `project`
    wfiles,      \* worker -> the run's local artefacts
    last_cleanup_time, \* worker -> JobWorker.last_cleanup_time
    creq,        \* job id -> a cancel request that passed the route's checks
    creq_cancelled_at, \* job id -> that request's local `cancelled_at`
    cresp,       \* the last response of the cancel route: job id, status code
    blobs,       \* the jobs/ blobs that exist in the storage container
    pblobs,      \* the blobs under the {project_id}/ prefixes of the container
    presp,       \* the last response of the process route: job id, status code
    pcancel,     \* the project-wide cancel request in flight, or its response
    pending_cancels, \* history: ids of the jobs a cancel update found pending
    elog,        \* worker -> the last logger.error line of an except branch
                 \* that swallows the failure of a call
    preq,        \* the submit or project route in flight between two calls
    awaiting     \* the upload_ortho requests suspended at `await file.read()`

vars == <<jobs, projects, next_id, now, pc, wjob, wproject, wfiles,
          last_cleanup_time, creq, creq_cancelled_at, cresp, blobs, pblobs, presp,
          pcancel, pending_cancels, elog, preq, awaiting>>

worker_vars == <<pc, wjob, wproject, wfiles, last_cleanup_time>>
route_vars == <<creq, creq_cancelled_at, cresp, awaiting>>

\* todo: the files or blobs the loop of the current step has still to visit
NoFiles == [local_file |-> FALSE, png_file |-> FALSE, thumbnail_file |-> FALSE,
            output_dir |-> FALSE, error |-> None, todo |-> {}]

\* ------------------------------------------------------------ documents
\* the extensions an uploaded point cloud keeps in its blob name
PointCloudExts == {".las", ".laz"}

\* the blob name f"jobs/{job_id}{ext}"
blob_name(job_id, ext) == [job |-> job_id, ext |-> ext]

\* Job(...)._to_dict() for a point-cloud job
create_job_doc(project_id, azure_path, t) ==
    [type |-> "point_cloud", project_id |-> project_id, status |-> "pending",
     azure_path |-> azure_path,
     cancelled |-> FALSE, current_step |-> None, progress_message |-> None,
     error_message |-> None, created_at |-> t, updated_at |-> t,
     completed_at |-> NoTime]

\* Job(...)._to_dict() with type, current_step and progress_message of upload_ortho
upload_ortho_doc(project_id, azure_path, t) ==
    [type |-> "ortho_conversion", project_id |-> project_id, status |-> "pending",
     azure_path |-> azure_path,
     cancelled |-> FALSE, current_step |-> "queued",
     progress_message |-> "Ortho conversion job queued",
     error_message |-> None, created_at |-> t, updated_at |-> t,
     completed_at |-> NoTime]

\* Project()._to_dict() as upload_project builds it: location = Location(),
\* every artifact field None
EmptyProject ==
    [location |-> "Location()", point_count |-> None, thumbnail |-> None,
     cloud |-> None, ortho |-> NoOrtho]

\* (mutant) an update that inserts the document when the id is missing
update_one_upsert(coll, id, fields) ==
    IF id \in DOMAIN coll THEN [coll EXCEPT ![id] = fields @@ @]
    ELSE (id :> fields) @@ coll

\* update_one({'_id': id}, {'$set': fields}) on a collection
update_one(coll, id, fields) ==
    IF id \in DOMAIN coll THEN [coll EXCEPT ![id] = fields @@ @] ELSE coll

\* ------------------------------------------------- DatabaseManager methods
\* (mutant) a status write that clears the cancelled flag on progress
update_job_status_clears_flag(J, job_id, status, kwargs, t) ==
    update_one(J, job_id,
               (IF status = "processing" THEN [cancelled |-> FALSE]
                ELSE [completed_at |-> t])
               @@ [status |-> status, updated_at |-> t] @@ kwargs)

update_job_status(J, job_id, status, kwargs, t) ==
    LET update_fields ==
            [status |-> status, updated_at |-> t] @@ kwargs
        with_completed ==
            IF status \in {"completed", "failed"}
            THEN [completed_at |-> t] @@ update_fields
            ELSE update_fields
    IN update_one(J, job_id, with_completed)

\* (mutant) a cancel that does not stamp completed_at
cancel_job_nostamp(J, job_id, cancelled_at) ==
    update_one(J, job_id,
               [cancelled |-> TRUE, status |-> "cancelled",
                updated_at |-> cancelled_at])

\* (mutant) a cancel that writes the status without the cancelled flag
cancel_job_status_only(J, job_id, cancelled_at) ==
    update_one(J, job_id,
               [status |-> "cancelled", updated_at |-> cancelled_at,
                completed_at |-> cancelled_at])

\* the stored collection after cancel_job
cancel_job(J, job_id, cancelled_at) ==
    update_one(J, job_id,
               [cancelled |-> TRUE, status |-> "cancelled",
                updated_at |-> cancelled_at, completed_at |-> cancelled_at])

\* the value cancel_job returns: modified_count > 0
cancel_job_result(J, job_id, cancelled_at) ==
    /\ job_id \in DOMAIN J
    /\ cancel_job(J, job_id, cancelled_at) # J

is_job_cancelled(J, job_id) ==
    IF job_id \in DOMAIN J THEN J[job_id].cancelled ELSE FALSE

\* (mutant) a sweep that also deletes a job exactly as old as the window
cleanup_old_jobs_inclusive(J, hours, t) ==
    LET cutoff_time == t - hours * Hour
        kept == {j \in DOMAIN J : ~(J[j].created_at <= cutoff_time)}
    IN [j \in kept |-> J[j]]

cleanup_old_jobs(J, hours, t) ==
    LET cutoff_time == t - hours * Hour
        kept == {j \in DOMAIN J : ~(J[j].created_at < cutoff_time)}
    IN [j \in kept |-> J[j]]

updateProject(P, id, doc) == update_one(P, id, doc)

\* (mutant) a create_job whose check never finds the existing record
create_job_raises_never(J, job_id) == FALSE

\* create_job raises ValueError: a job with this id already exists
create_job_raises(J, job_id) == job_id \in DOMAIN J

\* the stored collection after create_job: insert_one unless it raises
create_job(J, job_id, project_id, azure_path, t) ==
    IF create_job_raises(J, job_id) THEN J
    ELSE (job_id :> create_job_doc(project_id, azure_path, t)) @@ J

\* ------------------------------------------- AzureStorageManager methods
\* upload_blob without overwrite raises when the blob exists
upload_file_raises(B, name) == name \in B

upload_file(B, name) == B \cup {name}

delete_blob(B, name) == B \ {name}

\* container_client.delete_blob raises ResourceNotFoundError when no blob has
\* the name
delete_blob_raises(B, name) == name \notin B

\* upload_bytes(..., overwrite=True)
upload_bytes(B, name) == B \cup {name}

\* the blob name f"{project_id}/{name}"
project_blob(project_id, name) == [project |-> project_id, name |-> name]

\* list_blobs(prefix=f"{project_id}/")
list_blobs(B, project_id) == {b \in B : b.project = project_id}

\* the files PotreeConverter writes to its output directory
PotreeOutput == {"metadata.json", "octree.bin"}

\* deletes the blob named jobs/{job_id}.laz
delete_job_file(B, job_id) == delete_blob(B, blob_name(job_id, ".laz"))

\* ---------------------------------------------------------------- Init
Init ==
    /\ jobs = [j \in {} |-> NoJob]
    /\ projects = [p \in ProjectIds |-> EmptyProject]
    /\ next_id = 0
    /\ now = 0
    /\ pc = [w \in Workers |-> "boot"]
    /\ wjob = [w \in Workers |-> NoJob]
    /\ wproject = [w \in Workers |-> NoProject]
    /\ wfiles = [w \in Workers |-> NoFiles]
    /\ last_cleanup_time = [w \in Workers |-> NoTime]
    /\ creq = [j \in JobIds |-> FALSE]
    /\ creq_cancelled_at = [j \in JobIds |-> NoTime]
    /\ cresp = NoResponse
    /\ blobs = {}
    /\ pblobs = {}
    /\ presp = NoResponse
    /\ pcancel = NoCancel
    /\ pending_cancels = {}
    /\ elog = [w \in Workers |-> None]
    /\ preq = NoRequest
    /\ awaiting = {}

\* ------------------------------------------------------------ environment
\* the clock advances
Tick ==
    /\ now + TickHours * Hour <= MaxTime
    /\ now' = now + TickHours * Hour
    /\ UNCHANGED <<jobs, projects, next_id, worker_vars, route_vars, blobs, elog, pblobs, presp, pcancel, pending_cancels, preq>>

\* POST /process/{id}/potree up to its upload, once uuid4 has returned job_id:
\* getProject (404 when the project is missing), then upload_file to jobs/
\* (500 when it raises); the request then goes on to DB.create_job
process_point_cloud_with(job_id, id, file_extension) ==
    LET azure_path == blob_name(job_id, file_extension)
    IN /\ preq = NoRequest
       /\ IF id \notin DOMAIN projects
          THEN /\ presp' = [job_id |-> 0, code |-> 404]
               /\ UNCHANGED <<blobs, preq>>
          ELSE IF upload_file_raises(blobs, azure_path)
          THEN /\ presp' = [job_id |-> job_id, code |-> 500]
               /\ UNCHANGED <<blobs, preq>>
          ELSE /\ blobs' = upload_file(blobs, azure_path)
               /\ preq' = [op |-> "process_point_cloud", stage |-> "create",
                           job_id |-> job_id, project_id |-> id,
                           azure_path |-> azure_path]
               /\ UNCHANGED presp
       /\ UNCHANGED <<jobs, projects, now, worker_vars, route_vars, elog,
                      pblobs, pcancel, pending_cancels>>

\* POST /process/{id}/potree: the id uuid4 returns is fresh
process_point_cloud(max_jobs) ==
    /\ next_id < max_jobs
    /\ \E p \in ProjectIds, file_extension \in PointCloudExts :
         /\ process_point_cloud_with(next_id + 1, p, file_extension)
         /\ next_id' = IF p \in DOMAIN projects THEN next_id + 1 ELSE next_id

\* POST /process/{id}/potree when uuid4 may return an id already handed out
process_point_cloud_any ==
    /\ \E job_id \in JobIds, p \in ProjectIds, file_extension \in PointCloudExts :
         /\ process_point_cloud_with(job_id, p, file_extension)
         /\ next_id' = IF job_id > next_id /\ p \in DOMAIN projects
                       THEN job_id ELSE next_id

\* the route's DB.create_job: the record is inserted and the route answers
\* 200, or create_job raises ValueError and the route goes on to its cleanup
process_point_cloud_create ==
    /\ preq.op = "process_point_cloud"
    /\ preq.stage = "create"
    /\ IF create_job_raises(jobs, preq.job_id)
       THEN /\ preq' = [preq EXCEPT !.stage = "duplicate"]
            /\ UNCHANGED <<jobs, presp>>
       ELSE /\ jobs' = create_job(jobs, preq.job_id, preq.project_id,
                                  preq.azure_path, now)
            /\ presp' = [job_id |-> preq.job_id, code |-> 200]
            /\ preq' = NoRequest
    /\ UNCHANGED <<projects, next_id, now, worker_vars, route_vars, blobs,
                   elog, pblobs, pcancel, pending_cancels>>

\* except ValueError: the uploaded blob is deleted again and the route
\* answers 409
process_point_cloud_duplicate ==
    /\ preq.op = "process_point_cloud"
    /\ preq.stage = "duplicate"
    /\ blobs' = delete_blob(blobs, preq.azure_path)
    /\ presp' = [job_id |-> preq.job_id, code |-> 409]
    /\ preq' = NoRequest
    /\ UNCHANGED <<jobs, projects, next_id, now, worker_vars, route_vars,
                   elog, pblobs, pcancel, pending_cancels>>

\* POST /projects/{project_id}/ortho up to its await: getProject (404 when the
\* project is missing), uuid4, then `content = await file.read()`, at which
\* the request is suspended and other requests are served
upload_ortho(max_jobs) ==
    /\ preq = NoRequest
    /\ next_id < max_jobs
    /\ \E p \in ProjectIds :
         /\ p \in DOMAIN projects
         /\ awaiting' = awaiting \cup
                {[job_id |-> next_id + 1, project_id |-> p,
                  azure_path |-> blob_name(next_id + 1, ".tif")]}
    /\ next_id' = next_id + 1
    /\ UNCHANGED <<jobs, projects, now, worker_vars, creq, creq_cancelled_at,
                   cresp, blobs, elog, pblobs, presp, pcancel, pending_cancels,
                   preq>>

\* the route resumed after the await: upload_file to jobs/{job_id}.tif
upload_ortho_upload ==
    /\ preq = NoRequest
    /\ \E r \in awaiting :
         /\ blobs' = upload_file(blobs, r.azure_path)
         /\ preq' = [op |-> "upload_ortho", job_id |-> r.job_id,
                     project_id |-> r.project_id, azure_path |-> r.azure_path]
         /\ awaiting' = awaiting \ {r}
    /\ UNCHANGED <<jobs, projects, next_id, now, worker_vars, creq,
                   creq_cancelled_at, cresp, elog, pblobs, presp, pcancel,
                   pending_cancels>>

\* the route's insert_one of the job document
upload_ortho_insert ==
    /\ preq.op = "upload_ortho"
    /\ jobs' = (preq.job_id :>
                  upload_ortho_doc(preq.project_id, preq.azure_path, now))
               @@ jobs
    /\ preq' = NoRequest
    /\ UNCHANGED <<projects, next_id, now, worker_vars, route_vars, blobs,
                   elog, pblobs, presp, pcancel, pending_cancels>>

\* ----------------------------------------------------- routes/projects.py
\* POST /projects/upload: addProject inserts the document unless the id exists
upload_project(id) ==
    /\ preq = NoRequest
    /\ id \notin DOMAIN projects
    /\ projects' = (id :> EmptyProject) @@ projects
    /\ UNCHANGED <<jobs, next_id, now, worker_vars, route_vars, blobs, elog,
                   pblobs, presp, pcancel, pending_cancels, preq>>

\* DELETE /projects/{id}/delete and each id of DELETE /projects/delete:
\* getProject, then DB.deleteProject up to its delete_one
deleteProject(id) ==
    /\ preq = NoRequest
    /\ id \in DOMAIN projects
    /\ projects' = [p \in DOMAIN projects \ {id} |-> projects[p]]
    /\ preq' = [op |-> "deleteProject", stage |-> "list", project_id |-> id,
                todo |-> {}]
    /\ UNCHANGED <<jobs, next_id, now, worker_vars, route_vars, blobs, elog,
                   pblobs, presp, pcancel, pending_cancels>>

\* az.delete_project_files: list_blobs(name_starts_with=f"{project_id}/")
delete_project_files_list ==
    /\ preq.op = "deleteProject"
    /\ preq.stage = "list"
    /\ LET found == list_blobs(pblobs, preq.project_id)
       IN preq' = IF found = {} THEN NoRequest
                  ELSE [preq EXCEPT !.stage = "delete", !.todo = found]
    /\ UNCHANGED <<jobs, projects, next_id, now, worker_vars, route_vars,
                   blobs, elog, pblobs, presp, pcancel, pending_cancels>>

\* az.delete_project_files: delete_blob of one listed blob; a delete that
\* raises (the blob is gone) ends the loop, and deleteProject swallows it
delete_project_files_delete ==
    /\ preq.op = "deleteProject"
    /\ preq.stage = "delete"
    /\ \E b \in preq.todo :
         IF b \in pblobs
         THEN /\ pblobs' = delete_blob(pblobs, b)
              /\ preq' = IF preq.todo = {b} THEN NoRequest
                         ELSE [preq EXCEPT !.todo = @ \ {b}]
         ELSE /\ preq' = NoRequest
              /\ UNCHANGED pblobs
    /\ UNCHANGED <<jobs, projects, next_id, now, worker_vars, route_vars,
                   blobs, elog, presp, pcancel, pending_cancels>>

\* PUT /projects/{id}/update up to its write: getProject (404 when missing);
\* the form fields change only fields outside the artifact references
update_project(id) ==
    /\ preq = NoRequest
    /\ id \in DOMAIN projects
    /\ preq' = [op |-> "update_project", project_id |-> id,
                doc |-> projects[id]]
    /\ UNCHANGED <<jobs, projects, next_id, now, worker_vars, route_vars,
                   blobs, elog, pblobs, presp, pcancel, pending_cancels>>

\* the route's DB.updateProject(project): the whole document as it was read
update_project_write ==
    /\ preq.op = "update_project"
    /\ projects' = updateProject(projects, preq.project_id, preq.doc)
    /\ preq' = NoRequest
    /\ UNCHANGED <<jobs, next_id, now, worker_vars, route_vars, blobs, elog,
                   pblobs, presp, pcancel, pending_cancels>>

\* POST /projects/{id}/refresh-urls up to its write: getProject (404 when
\* missing), then cloud and thumbnail set to generate_sas_url of
\* {id}/metadata.json and {id}/thumbnail.png, whether the blobs exist or not
refresh_project_urls(id) ==
    /\ preq = NoRequest
    /\ id \in DOMAIN projects
    /\ preq' = [op |-> "refresh_project_urls", project_id |-> id,
                doc |-> [projects[id] EXCEPT !.cloud = "metadata.json",
                                             !.thumbnail = "thumbnail.png"]]
    /\ UNCHANGED <<jobs, projects, next_id, now, worker_vars, route_vars,
                   blobs, elog, pblobs, presp, pcancel, pending_cancels>>

\* the route's DB.updateProject(project)
refresh_project_urls_write ==
    /\ preq.op = "refresh_project_urls"
    /\ projects' = updateProject(projects, preq.project_id, preq.doc)
    /\ preq' = NoRequest
    /\ UNCHANGED <<jobs, next_id, now, worker_vars, route_vars, blobs, elog,
                   pblobs, presp, pcancel, pending_cancels>>

\* ------------------------------------------------ routes/jobs.py cancel_job
\* (mutant) the route without its check for failed jobs
cancel_job_route_response_nofailed(J, j) ==
    IF j \notin DOMAIN J THEN 404
    ELSE IF J[j].status = "completed" THEN 409
    ELSE IF J[j].status = "cancelled" THEN 409
    ELSE 0

\* the route up to its status checks (DB.get_job, then 404 or 409): the status
\* code it answers with, 0 when it goes on to DB.cancel_job
cancel_job_route_response(J, j) ==
    IF j \notin DOMAIN J THEN 404
    ELSE IF J[j].status = "completed" THEN 409
    ELSE IF J[j].status = "failed" THEN 409
    ELSE IF J[j].status = "cancelled" THEN 409
    ELSE 0

\* the history after DB.cancel_job(j): j is added when the update finds the
\* job with status pending
CancelledWhilePending(j) ==
    IF j \in DOMAIN jobs /\ jobs[j].status = "pending"
    THEN pending_cancels \cup {j} ELSE pending_cancels

\* a request runs the checks; one that passes them reads the clock for its
\* `cancelled_at` and is in flight until its update
cancel_job_route_check(j) ==
    /\ ~creq[j]
    /\ creq' = [creq EXCEPT ![j] = (cancel_job_route_response(jobs, j) = 0)]
    /\ creq_cancelled_at' =
           [creq_cancelled_at EXCEPT
              ![j] = IF cancel_job_route_response(jobs, j) = 0 THEN now
                     ELSE NoTime]
    /\ cresp' = IF cancel_job_route_response(jobs, j) = 0 THEN cresp
                ELSE [job_id |-> j, code |-> cancel_job_route_response(jobs, j)]
    /\ UNCHANGED <<jobs, projects, next_id, now, worker_vars, blobs, elog,
                   pblobs, presp, pcancel, pending_cancels, preq, awaiting>>

\* the status code of the route from DB.cancel_job on: success or 500
cancel_job_route_result(J, j, t) ==
    IF cancel_job_result(J, j, t) THEN 200 ELSE 500

\* DB.cancel_job with the time the request read after its checks
cancel_job_route_update(j) ==
    /\ creq[j]
    /\ jobs' = cancel_job(jobs, j, creq_cancelled_at[j])
    /\ cresp' = [job_id |-> j,
                 code |-> cancel_job_route_result(jobs, j, creq_cancelled_at[j])]
    /\ creq' = [creq EXCEPT ![j] = FALSE]
    /\ creq_cancelled_at' = [creq_cancelled_at EXCEPT ![j] = NoTime]
    /\ pending_cancels' = CancelledWhilePending(j)
    /\ UNCHANGED <<projects, next_id, now, worker_vars, blobs, elog, pblobs,
                   presp, pcancel, preq, awaiting>>

\* ------------------------------------------------------ main.py startup
\* --------------------------- routes/jobs.py POST /jobs/project/{id}/cancel
\* DB.get_jobs_by_project: the ids of the project's jobs
get_jobs_by_project(J, project_id) ==
    {j \in DOMAIN J : J[j].project_id = project_id}

\* the route up to its loop: getProject (404 when the project is missing), the
\* scan of the project's jobs, the filter on
\* status, skipped_count and the one cancelled_at; it answers at once when the
\* project has no job or none that is pending or processing
cancel_project_jobs_scan(project_id) ==
    LET found == get_jobs_by_project(jobs, project_id)
        cancellable_jobs ==
            {j \in found : jobs[j].status \in {"pending", "processing"}}
    IN /\ pcancel.stage # "cancelling"
       /\ project_id \in DOMAIN projects
       /\ pcancel' = [stage |-> IF cancellable_jobs = {} THEN "done"
                                ELSE "cancelling",
                      project_id |-> project_id,
                      todo |-> cancellable_jobs,
                      cancelled_at |-> now,
                      total |-> Cardinality(found),
                      cancelled_jobs |-> {},
                      skipped_count |->
                          Cardinality(found) - Cardinality(cancellable_jobs)]
       /\ UNCHANGED <<jobs, projects, next_id, now, worker_vars, route_vars,
                      blobs, elog, pblobs, presp, pending_cancels, preq>>

\* one iteration of the route's loop, newest job first: DB.cancel_job on the
\* job as it was scanned; after the last one the route answers
cancel_project_jobs_cancel(j) ==
    /\ pcancel.stage = "cancelling"
    /\ j \in pcancel.todo
    /\ \A k \in pcancel.todo :
         (k \in DOMAIN jobs /\ j \in DOMAIN jobs)
             => jobs[k].created_at <= jobs[j].created_at
    /\ jobs' = cancel_job(jobs, j, pcancel.cancelled_at)
    /\ pcancel' = [pcancel EXCEPT
                     !.todo = @ \ {j},
                     !.cancelled_jobs =
                         IF cancel_job_result(jobs, j, pcancel.cancelled_at)
                         THEN @ \cup {j} ELSE @,
                     !.stage = IF pcancel.todo = {j} THEN "done" ELSE @]
    /\ pending_cancels' = CancelledWhilePending(j)
    /\ UNCHANGED <<projects, next_id, now, worker_vars, route_vars, blobs,
                   elog, pblobs, presp, preq>>

\* (mutant) a sweep that also clears the cancelled flag of the jobs it resets
startup_event_clears_flag(w) ==
    /\ pc[w] = "boot"
    /\ jobs' = [j \in DOMAIN jobs |->
                  IF jobs[j].status = "processing"
                  THEN [status |-> "pending", updated_at |-> now,
                        cancelled |-> FALSE] @@ jobs[j]
                  ELSE jobs[j]]
    /\ pc' = [pc EXCEPT ![w] = "loop"]
    /\ UNCHANGED <<projects, next_id, now, wjob, wproject, wfiles,
                   last_cleanup_time, route_vars, blobs, elog, pblobs, presp, pcancel, pending_cancels, preq>>

\* (mutant) a startup that starts the worker thread without the sweep
startup_event_nosweep(w) ==
    /\ pc[w] = "boot"
    /\ pc' = [pc EXCEPT ![w] = "loop"]
    /\ UNCHANGED <<jobs, projects, next_id, now, wjob, wproject, wfiles,
                   last_cleanup_time, route_vars, blobs, elog, pblobs, presp, pcancel, pending_cancels, preq>>

\* the stale sweep of one process, then its worker thread starts
startup_event(w) ==
    /\ pc[w] = "boot"
    /\ jobs' = [j \in DOMAIN jobs |->
                  IF jobs[j].status = "processing"
                  THEN [status |-> "pending", updated_at |-> now] @@ jobs[j]
                  ELSE jobs[j]]
    /\ pc' = [pc EXCEPT ![w] = "loop"]
    /\ UNCHANGED <<projects, next_id, now, wjob, wproject, wfiles,
                   last_cleanup_time, route_vars, blobs, elog, pblobs, presp, pcancel, pending_cancels, preq>>

\* ------------------------------------------------------ JobWorker loop
\* (mutant) a check without its gate
should_cleanup_always(last, force, t) == TRUE

should_cleanup(last, force, t) ==
    IF last = NoTime THEN TRUE
    ELSE IF force THEN (t - last) >= cleanup_interval_hours * Hour
    ELSE (t - last) >= cleanup_interval_hours * Hour

check_and_run_cleanup(w, force) ==
    /\ pc[w] = (IF force THEN "after_job" ELSE "loop")
    /\ IF should_cleanup(last_cleanup_time[w], force, now)
       THEN /\ jobs' = cleanup_old_jobs(jobs, RetentionHours, now)
            /\ last_cleanup_time' = [last_cleanup_time EXCEPT ![w] = now]
       ELSE UNCHANGED <<jobs, last_cleanup_time>>
    /\ pc' = [pc EXCEPT ![w] = IF force THEN "loop" ELSE "poll"]
    /\ UNCHANGED <<projects, next_id, now, wjob, wproject, wfiles, route_vars, blobs, elog, pblobs, presp, pcancel, pending_cancels, preq>>

\* (mutant) a filter that also matches jobs another worker is processing
get_next_job_match_stale(J) ==
    {j \in DOMAIN J : J[j].status \in {"pending", "processing"}}

\* (mutant) a claim without its sort: any pending job
get_next_job_match_any(J) == {j \in DOMAIN J : J[j].status = "pending"}

\* the documents find_one_and_update may select: pending, oldest first
get_next_job_match(J) ==
    {j \in DOMAIN J :
        /\ J[j].status = "pending"
        /\ \A k \in DOMAIN J :
             J[k].status = "pending" => J[j].created_at <= J[k].created_at}

\* the Job object built from the returned document
JobObject(j, doc) ==
    [id |-> j, type |-> doc.type, project_id |-> doc.project_id,
     azure_path |-> doc.azure_path, cancelled |-> doc.cancelled]

get_next_job(w) ==
    /\ pc[w] = "poll"
    /\ IF get_next_job_match(jobs) = {}
       THEN /\ pc' = [pc EXCEPT ![w] = "sleep"]
            /\ UNCHANGED <<jobs, wjob>>
       ELSE \E j \in get_next_job_match(jobs) :
            /\ jobs' = update_one(jobs, j,
                          [status |-> "processing", updated_at |-> now])
            /\ wjob' = [wjob EXCEPT ![w] = JobObject(j, jobs'[j])]
            /\ pc' = [pc EXCEPT ![w] = "run"]
    /\ UNCHANGED <<projects, next_id, now, wproject, wfiles,
                   last_cleanup_time, route_vars, blobs, elog, pblobs, presp, pcancel, pending_cancels, preq>>

\* (mutant) a loop that ends after a poll that found nothing
sleep_ends_loop(w) ==
    /\ pc[w] = "sleep"
    /\ pc' = [pc EXCEPT ![w] = "stopped"]
    /\ UNCHANGED <<jobs, projects, next_id, now, wjob, wproject, wfiles,
                   last_cleanup_time, route_vars, blobs, elog, pblobs, presp, pcancel, pending_cancels, preq>>

\* time.sleep(poll_interval) after a poll that found nothing
sleep(w) ==
    /\ pc[w] = "sleep"
    /\ pc' = [pc EXCEPT ![w] = "loop"]
    /\ UNCHANGED <<jobs, projects, next_id, now, wjob, wproject, wfiles,
                   last_cleanup_time, route_vars, blobs, elog, pblobs, presp, pcancel, pending_cancels, preq>>


\* ------------------------------------------------------ pipeline helpers
JobId(w) == wjob[w].id

\* self.db.update_job_status(job.id, status, **kwargs) made by worker w
SetStatus(w, status, kwargs) ==
    jobs' = update_job_status(jobs, JobId(w), status, kwargs, now)

Goto(w, from, to) ==
    /\ pc[w] = from
    /\ pc' = [pc EXCEPT ![w] = to]

\* raise: remember str(e) and enter the except branch
Raise(w, handler, msg) ==
    /\ pc' = [pc EXCEPT ![w] = handler]
    /\ wfiles' = [wfiles EXCEPT ![w].error = msg]

\* process_job / process_ortho_job returns: its locals are gone
Return(w) ==
    /\ pc' = [pc EXCEPT ![w] = "after_job"]
    /\ wjob' = [wjob EXCEPT ![w] = NoJob]
    /\ wproject' = [wproject EXCEPT ![w] = NoProject]
    /\ wfiles' = [wfiles EXCEPT ![w] = NoFiles]

\* _cleanup_ortho_files: the run's local files, then delete_job_file(job_id);
\* the deletes of jobs/{job_id}.jgw, .pgw, .wld, ... that follow name blobs no
\* route uploads, and their failures are ignored
cleanup_ortho_files(B, job) == delete_job_file(B, job.id)

\* cleanup_temp_files and _cleanup_cancelled_job: the local temp file, then
\* delete_blob(job.azure_path)
cleanup_temp_files(B, job) == delete_blob(B, job.azure_path)

\* the checkpoints of the two pipelines: position of the check -> position of
\* the step that follows it
Checkpoints ==
    [o_check1 |-> "o_validate", o_check2 |-> "o_convert",
     o_check3 |-> "o_thumbnail", o_check4 |-> "o_upload",
     p_check0 |-> "p_metadata", p_check1 |-> "p_thumbnail",
     p_check2 |-> "p_conversion", p_check3 |-> "p_upload"]

IsOrthoPc(p) == p \in {"o_check1", "o_check2", "o_check3", "o_check4"}

\* self._check_cancellation(job.id): raise CancellationException or go on
check_cancellation(w) ==
    /\ pc[w] \in DOMAIN Checkpoints
    /\ pc' = [pc EXCEPT ![w] =
                IF is_job_cancelled(jobs, JobId(w))
                THEN (IF IsOrthoPc(pc[w]) THEN "o_cancelled" ELSE "p_cancelled")
                ELSE Checkpoints[pc[w]]]
    /\ UNCHANGED <<jobs, projects, next_id, now, wjob, wproject, wfiles,
                   last_cleanup_time, route_vars, blobs, elog, pblobs, presp, pcancel, pending_cancels, preq>>

\* ------------------------------------------------- process_ortho_job
ortho_start(w) ==
    /\ Goto(w, "run", "o_download")
    /\ wjob[w].type = "ortho_conversion"
    /\ SetStatus(w, "processing",
                 [progress_message |-> "Starting ortho processing"])
    /\ UNCHANGED <<projects, next_id, now, wjob, wproject, wfiles,
                   last_cleanup_time, route_vars, blobs, elog, pblobs, presp, pcancel, pending_cancels, preq>>

\* Step 1: _download_ortho_file
ortho_download(w) ==
    /\ pc[w] = "o_download"
    /\ \E ok \in BOOLEAN :
         IF ok
         THEN /\ pc' = [pc EXCEPT ![w] = "o_check1"]
              /\ wfiles' = [wfiles EXCEPT ![w].local_file = TRUE]
         ELSE Raise(w, "o_error", "Failed to download ortho file from Azure")
    /\ UNCHANGED <<jobs, projects, next_id, now, wjob, wproject,
                   last_cleanup_time, route_vars, blobs, elog, pblobs, presp, pcancel, pending_cancels, preq>>

\* Step 2: status write, then _validate_geotiff
ortho_validate(w) ==
    /\ pc[w] = "o_validate"
    /\ SetStatus(w, "processing", [progress_message |-> "Validating file"])
    /\ \E ok \in BOOLEAN :
         IF ok
         THEN pc' = [pc EXCEPT ![w] = "o_check2"] /\ UNCHANGED wfiles
         ELSE Raise(w, "o_error", "Invalid GeoTIFF file")
    /\ UNCHANGED <<projects, next_id, now, wjob, wproject,
                   last_cleanup_time, route_vars, blobs, elog, pblobs, presp, pcancel, pending_cancels, preq>>

\* Step 3: _convert_to_png_overlay
ortho_convert(w) ==
    /\ pc[w] = "o_convert"
    /\ SetStatus(w, "processing",
                 [progress_message |-> "Converting to PNG overlay"])
    /\ \E ok \in BOOLEAN :
         IF ok
         THEN /\ pc' = [pc EXCEPT ![w] = "o_check3"]
              /\ wfiles' = [wfiles EXCEPT ![w].png_file = TRUE,
                                          ![w].local_file = FALSE]
         ELSE Raise(w, "o_error", "Failed to convert to PNG overlay")
    /\ UNCHANGED <<projects, next_id, now, wjob, wproject,
                   last_cleanup_time, route_vars, blobs, elog, pblobs, presp, pcancel, pending_cancels, preq>>

\* (mutant) a preview step whose failure raises
ortho_thumbnail_fatal(w) ==
    /\ pc[w] = "o_thumbnail"
    /\ SetStatus(w, "processing", [progress_message |-> "Generating thumbnail"])
    /\ \E ok \in BOOLEAN :
         IF ok
         THEN /\ pc' = [pc EXCEPT ![w] = "o_check4"]
              /\ wfiles' = [wfiles EXCEPT ![w].thumbnail_file = TRUE]
         ELSE Raise(w, "o_error", "Thumbnail generation failed")
    /\ UNCHANGED <<projects, next_id, now, wjob, wproject,
                   last_cleanup_time, route_vars, blobs, elog, pblobs, presp, pcancel, pending_cancels, preq>>

\* Step 4: _generate_ortho_thumbnail, which returns None on any failure
ortho_thumbnail(w) ==
    /\ Goto(w, "o_thumbnail", "o_check4")
    /\ SetStatus(w, "processing", [progress_message |-> "Generating thumbnail"])
    /\ \E ok \in BOOLEAN :
         wfiles' = [wfiles EXCEPT ![w].thumbnail_file = ok]
    /\ UNCHANGED <<projects, next_id, now, wjob, wproject,
                   last_cleanup_time, route_vars, blobs, elog, pblobs, presp, pcancel, pending_cancels, preq>>

\* Step 5, _upload_ortho_to_azure: its status write
ortho_upload(w) ==
    /\ Goto(w, "o_upload", "o_upload_png")
    /\ SetStatus(w, "processing", [progress_message |-> "Uploading to Azure"])
    /\ UNCHANGED <<projects, next_id, now, wjob, wproject, wfiles,
                   last_cleanup_time, route_vars, blobs, elog, pblobs, presp,
                   pcancel, pending_cancels, preq>>

\* the outcomes of an upload followed by get_public_url: the call that raises
UploadRaises == {"upload_bytes", "get_public_url", None}

\* Step 5: upload_bytes of the PNG overlay, then get_public_url
ortho_upload_png(w) ==
    /\ pc[w] = "o_upload_png"
    /\ \E raises \in UploadRaises :
         /\ pblobs' = IF raises = "upload_bytes" THEN pblobs
                      ELSE upload_bytes(pblobs,
                             project_blob(wjob[w].project_id, "ortho/ortho.png"))
         /\ IF raises # None
            THEN Raise(w, "o_error", "Failed to upload ortho to Azure storage")
            ELSE /\ pc' = [pc EXCEPT ![w] =
                             IF wfiles[w].thumbnail_file
                             THEN "o_upload_thumbnail" ELSE "o_project_get"]
                 /\ UNCHANGED wfiles
    /\ UNCHANGED <<jobs, projects, next_id, now, wjob, wproject,
                   last_cleanup_time, route_vars, blobs, elog, presp, pcancel,
                   pending_cancels, preq>>

\* Step 5: upload_bytes of the thumbnail, when there is one, then
\* get_public_url
ortho_upload_thumbnail(w) ==
    /\ pc[w] = "o_upload_thumbnail"
    /\ \E raises \in UploadRaises :
         /\ pblobs' = IF raises = "upload_bytes" THEN pblobs
                      ELSE upload_bytes(pblobs,
                             project_blob(wjob[w].project_id,
                                          "ortho/ortho_thumbnail.png"))
         /\ IF raises # None
            THEN Raise(w, "o_error", "Failed to upload ortho to Azure storage")
            ELSE /\ pc' = [pc EXCEPT ![w] = "o_project_get"]
                 /\ UNCHANGED wfiles
    /\ UNCHANGED <<jobs, projects, next_id, now, wjob, wproject,
                   last_cleanup_time, route_vars, blobs, elog, presp, pcancel,
                   pending_cancels, preq>>

\* the Ortho object _update_project_ortho builds from the upload's URLs
OrthoObject(files) ==
    [url |-> "ortho.png",
     thumbnail |-> IF files.thumbnail_file THEN "ortho_thumbnail.png" ELSE None,
     bounds |-> "bounds"]

\* Step 6, first half: getProject and project.ortho = Ortho(...)
ortho_project_get(w) ==
    /\ pc[w] = "o_project_get"
    /\ IF wjob[w].project_id \in DOMAIN projects
       THEN /\ pc' = [pc EXCEPT ![w] = "o_project_put"]
            /\ wproject' = [wproject EXCEPT ![w] =
                 [id |-> wjob[w].project_id,
                  doc |-> [projects[wjob[w].project_id]
                             EXCEPT !.ortho = OrthoObject(wfiles[w])]]]
            /\ UNCHANGED wfiles
       ELSE Raise(w, "o_error", "Project not found") /\ UNCHANGED wproject
    /\ UNCHANGED <<jobs, projects, next_id, now, wjob,
                   last_cleanup_time, route_vars, blobs, elog, pblobs, presp, pcancel, pending_cancels, preq>>

\* Step 6, second half: updateProject(project)
ortho_project_put(w) ==
    /\ Goto(w, "o_project_put", "o_complete")
    /\ projects' = updateProject(projects, wproject[w].id, wproject[w].doc)
    /\ UNCHANGED <<jobs, next_id, now, wjob, wproject, wfiles,
                   last_cleanup_time, route_vars, blobs, elog, pblobs, presp, pcancel, pending_cancels, preq>>

\* (mutant) a run that ends without the write of status completed
ortho_complete_unwritten(w) ==
    /\ Goto(w, "o_complete", "o_cleanup")
    /\ UNCHANGED <<jobs, projects, next_id, now, wjob, wproject, wfiles,
                   last_cleanup_time, route_vars, blobs, elog, pblobs, presp,
                   pcancel, pending_cancels, preq>>

\* Step 7: mark completed
ortho_complete(w) ==
    /\ Goto(w, "o_complete", "o_cleanup")
    /\ SetStatus(w, "completed",
         [progress_message |-> "Ortho conversion completed successfully"])
    /\ UNCHANGED <<projects, next_id, now, wjob, wproject, wfiles,
                   last_cleanup_time, route_vars, blobs, elog, pblobs, presp,
                   pcancel, pending_cancels, preq>>

\* Step 8 and the end of both except branches: _cleanup_ortho_files (the run's
\* local files, then delete_job_file), and process_ortho_job returns
ortho_cleanup(w) ==
    /\ pc[w] = "o_cleanup"
    /\ blobs' = cleanup_ortho_files(blobs, wjob[w])
    /\ Return(w)
    /\ UNCHANGED <<jobs, projects, next_id, now, last_cleanup_time, route_vars,
                   elog, pblobs, presp, pcancel, pending_cancels, preq>>

\* except CancellationException, _handle_ortho_cancellation: the temp
\* directory, then delete_job_file
handle_ortho_cancellation(w) ==
    /\ Goto(w, "o_cancelled", "o_cancelled_status")
    /\ blobs' = delete_job_file(blobs, wjob[w].id)
    /\ UNCHANGED <<jobs, projects, next_id, now, wjob, wproject, wfiles,
                   last_cleanup_time, route_vars, elog, pblobs, presp,
                   pcancel, pending_cancels, preq>>

\* (mutant) a cancellation branch that records the run as failed
handle_ortho_cancellation_as_error(w) ==
    /\ Goto(w, "o_cancelled_status", "o_cleanup")
    /\ SetStatus(w, "failed", [progress_message |-> "Job cancelled by user"])
    /\ UNCHANGED <<projects, next_id, now, wjob, wproject, wfiles,
                   last_cleanup_time, route_vars, blobs, elog, pblobs, presp,
                   pcancel, pending_cancels, preq>>

\* _handle_ortho_cancellation: its status write
handle_ortho_cancellation_status(w) ==
    /\ Goto(w, "o_cancelled_status", "o_cleanup")
    /\ SetStatus(w, "cancelled", [progress_message |-> "Job cancelled by user"])
    /\ UNCHANGED <<projects, next_id, now, wjob, wproject, wfiles,
                   last_cleanup_time, route_vars, blobs, elog, pblobs, presp,
                   pcancel, pending_cancels, preq>>

\* except Exception, _handle_ortho_error: the temp directory, then
\* delete_job_file
handle_ortho_error(w) ==
    /\ Goto(w, "o_error", "o_error_status")
    /\ blobs' = delete_job_file(blobs, wjob[w].id)
    /\ UNCHANGED <<jobs, projects, next_id, now, wjob, wproject, wfiles,
                   last_cleanup_time, route_vars, elog, pblobs, presp,
                   pcancel, pending_cancels, preq>>

\* (mutant) an error branch that goes on without the status write
handle_ortho_error_unwritten(w) ==
    /\ Goto(w, "o_error_status", "o_cleanup")
    /\ UNCHANGED <<jobs, projects, next_id, now, wjob, wproject, wfiles,
                   last_cleanup_time, route_vars, blobs, elog, pblobs, presp,
                   pcancel, pending_cancels, preq>>

\* _handle_ortho_error: its status write
handle_ortho_error_status(w) ==
    /\ Goto(w, "o_error_status", "o_cleanup")
    /\ SetStatus(w, "failed",
         [error_message |-> wfiles[w].error,
          progress_message |-> "Ortho processing failed"])
    /\ UNCHANGED <<projects, next_id, now, wjob, wproject, wfiles,
                   last_cleanup_time, route_vars, blobs, elog, pblobs, presp,
                   pcancel, pending_cancels, preq>>

\* ------------------------------------------- process_job (point cloud)
\* getProject; a missing project raises ValueError
pc_get_project(w) ==
    /\ pc[w] = "run"
    /\ wjob[w].type # "ortho_conversion"
    /\ IF wjob[w].project_id \in DOMAIN projects
       THEN /\ pc' = [pc EXCEPT ![w] = "p_check0"]
            /\ wproject' = [wproject EXCEPT ![w] =
                 [id |-> wjob[w].project_id,
                  doc |-> projects[wjob[w].project_id]]]
            /\ UNCHANGED wfiles
       ELSE Raise(w, "p_error", "Project not found") /\ UNCHANGED wproject
    /\ UNCHANGED <<jobs, projects, next_id, now, wjob,
                   last_cleanup_time, route_vars, blobs, elog, pblobs, presp, pcancel, pending_cancels, preq>>

\* Step 1: status write, CloudMetadata(...).summary(); project.location is
\* set from the center, project.point_count only when the file has points
pc_metadata(w) ==
    /\ pc[w] = "p_metadata"
    /\ SetStatus(w, "processing",
         [current_step |-> "metadata",
          progress_message |-> "Extracting point cloud metadata..."])
    /\ \E ok \in BOOLEAN, points \in {0, 1} :
         IF ok
         THEN /\ pc' = [pc EXCEPT ![w] = "p_check1"]
              /\ wproject' = [wproject EXCEPT
                   ![w].doc.location = "center",
                   ![w].doc.point_count = IF points # 0 THEN "points" ELSE @]
              /\ UNCHANGED wfiles
         ELSE Raise(w, "p_error", "Metadata extraction failed")
              /\ UNCHANGED wproject
    /\ UNCHANGED <<projects, next_id, now, wjob, last_cleanup_time, route_vars, blobs, elog, pblobs, presp, pcancel, pending_cancels, preq>>

\* Step 2: its status write
pc_thumbnail(w) ==
    /\ Goto(w, "p_thumbnail", "p_thumbnail_upload")
    /\ SetStatus(w, "processing",
         [current_step |-> "thumbnail",
          progress_message |-> "Generating thumbnail..."])
    /\ UNCHANGED <<projects, next_id, now, wjob, wproject, wfiles,
                   last_cleanup_time, route_vars, blobs, elog, pblobs, presp,
                   pcancel, pending_cancels, preq>>

\* Steps 2 and 3: generate_from_las, upload_bytes to {project.id}/thumbnail.png
\* and get_public_url inside a try/except that swallows every failure
pc_thumbnail_upload(w) ==
    /\ Goto(w, "p_thumbnail_upload", "p_project1")
    /\ \E raises \in {"generate_from_las", "get_public_url", None} :
         /\ pblobs' = IF raises = "generate_from_las" THEN pblobs
                      ELSE upload_bytes(pblobs,
                             project_blob(wproject[w].id, "thumbnail.png"))
         /\ wproject' = IF raises = None
                        THEN [wproject EXCEPT ![w].doc.thumbnail =
                                "thumbnail.png"]
                        ELSE wproject
    /\ UNCHANGED <<jobs, projects, next_id, now, wjob, wfiles,
                   last_cleanup_time, route_vars, blobs, elog, presp, pcancel,
                   pending_cancels, preq>>

\* Step 4: updateProject(project) with metadata and thumbnail
pc_update_project_metadata(w) ==
    /\ Goto(w, "p_project1", "p_check2")
    /\ projects' = updateProject(projects, wproject[w].id, wproject[w].doc)
    /\ UNCHANGED <<jobs, next_id, now, wjob, wproject, wfiles,
                   last_cleanup_time, route_vars, blobs, elog, pblobs, presp, pcancel, pending_cancels, preq>>

\* Step 5: status write, mkdtemp, PotreeConverter().convert
pc_conversion(w) ==
    /\ pc[w] = "p_conversion"
    /\ SetStatus(w, "processing",
         [current_step |-> "conversion",
          progress_message |-> "Converting to Potree format..."])
    /\ \E ok \in BOOLEAN :
         IF ok
         THEN /\ pc' = [pc EXCEPT ![w] = "p_check3"]
              /\ wfiles' = [wfiles EXCEPT ![w].output_dir = TRUE]
         ELSE /\ pc' = [pc EXCEPT ![w] = "p_error"]
              /\ wfiles' = [wfiles EXCEPT ![w].output_dir = TRUE,
                                          ![w].error = "PotreeConverter failed"]
    /\ UNCHANGED <<projects, next_id, now, wjob, wproject,
                   last_cleanup_time, route_vars, blobs, elog, pblobs, presp, pcancel, pending_cancels, preq>>

\* Step 6: its status write; _upload_potree_output then walks the output
\* directory
pc_upload(w) ==
    /\ Goto(w, "p_upload", "p_upload_files")
    /\ SetStatus(w, "processing",
         [current_step |-> "upload",
          progress_message |-> "Uploading Potree files to Azure..."])
    /\ wfiles' = [wfiles EXCEPT ![w].todo = PotreeOutput]
    /\ UNCHANGED <<projects, next_id, now, wjob, wproject,
                   last_cleanup_time, route_vars, blobs, elog, pblobs, presp,
                   pcancel, pending_cancels, preq>>

\* _upload_potree_output: upload_bytes of one file of the output directory,
\* in the order of os.walk; after the last one get_public_url. A call that
\* raises ends the step
upload_potree_output(w) ==
    /\ pc[w] = "p_upload_files"
    /\ \E file \in wfiles[w].todo, raises \in UploadRaises :
         /\ pblobs' = IF raises = "upload_bytes" THEN pblobs
                      ELSE upload_bytes(pblobs,
                                        project_blob(wproject[w].id, file))
         /\ IF raises = "upload_bytes"
               \/ (raises = "get_public_url" /\ wfiles[w].todo = {file})
            THEN /\ pc' = [pc EXCEPT ![w] = "p_error"]
                 /\ wfiles' = [wfiles EXCEPT ![w].error = "Upload failed",
                                             ![w].todo = {}]
            ELSE /\ pc' = [pc EXCEPT ![w] =
                             IF wfiles[w].todo = {file}
                             THEN "p_project2" ELSE "p_upload_files"]
                 /\ wfiles' = [wfiles EXCEPT ![w].todo = @ \ {file}]
    /\ UNCHANGED <<jobs, projects, next_id, now, wjob, wproject,
                   last_cleanup_time, route_vars, blobs, elog, presp, pcancel,
                   pending_cancels, preq>>

\* Step 7: project.cloud = cloud_url; updateProject(project)
pc_update_project_cloud(w) ==
    /\ Goto(w, "p_project2", "p_complete")
    /\ projects' = updateProject(projects, wproject[w].id,
                      [wproject[w].doc EXCEPT !.cloud = "metadata.json"])
    /\ UNCHANGED <<jobs, next_id, now, wjob, wproject, wfiles,
                   last_cleanup_time, route_vars, blobs, elog, pblobs, presp, pcancel, pending_cancels, preq>>

\* Step 8: mark completed
pc_complete(w) ==
    /\ Goto(w, "p_complete", "p_cleanup")
    /\ SetStatus(w, "completed",
         [current_step |-> "completed",
          progress_message |-> "Processing completed successfully"])
    /\ UNCHANGED <<projects, next_id, now, wjob, wproject, wfiles,
                   last_cleanup_time, route_vars, blobs, elog, pblobs, presp,
                   pcancel, pending_cancels, preq>>

\* Step 9 and the end of the except branch: cleanup_temp_files (the local temp
\* file, then delete_blob(job.azure_path)), the output directory, and
\* process_job returns
pc_cleanup(w) ==
    /\ pc[w] = "p_cleanup"
    /\ blobs' = cleanup_temp_files(blobs, wjob[w])
    /\ Return(w)
    /\ UNCHANGED <<jobs, projects, next_id, now, last_cleanup_time, route_vars,
                   elog, pblobs, presp, pcancel, pending_cancels, preq>>

\* cleanup_temp_files when delete_blob raises: a warning is logged, the blob
\* stays, and process_job returns
pc_cleanup_raises(w) ==
    /\ pc[w] = "p_cleanup"
    /\ Return(w)
    /\ UNCHANGED <<jobs, projects, next_id, now, last_cleanup_time, route_vars,
                   blobs, elog, pblobs, presp, pcancel, pending_cancels, preq>>

\* except CancellationException, _handle_cancellation, _cleanup_cancelled_job:
\* the local temp file, then delete_blob(job.azure_path) in its own try; for a
\* blob that is gone the call raises and the error is logged
handle_cancellation(w) ==
    /\ Goto(w, "p_cancelled", "p_cancelled_list")
    /\ IF delete_blob_raises(blobs, wjob[w].azure_path)
       THEN /\ elog' = [elog EXCEPT ![w] = "Failed to delete Azure job file"]
            /\ UNCHANGED blobs
       ELSE /\ blobs' = delete_blob(blobs, wjob[w].azure_path)
            /\ UNCHANGED elog
    /\ UNCHANGED <<jobs, projects, next_id, now, wjob, wproject, wfiles,
                   last_cleanup_time, route_vars, pblobs, presp,
                   pcancel, pending_cancels, preq>>

\* _cleanup_cancelled_job: getProject and, when the project exists,
\* list_blobs(prefix=f"{project.id}/"), in a build whose AzureStorageManager
\* provides list_blobs
cleanup_cancelled_job_list(w) ==
    /\ Goto(w, "p_cancelled_list", "p_cancelled_delete")
    /\ wfiles' = [wfiles EXCEPT ![w].todo =
                    IF wjob[w].project_id \in DOMAIN projects
                    THEN list_blobs(pblobs, wjob[w].project_id) ELSE {}]
    /\ UNCHANGED <<jobs, projects, next_id, now, wjob, wproject,
                   last_cleanup_time, route_vars, blobs, elog, pblobs, presp,
                   pcancel, pending_cancels, preq>>

\* _cleanup_cancelled_job when the project exists and self.db.az.list_blobs
\* raises: the inner except logs it, no output blob is deleted. With az.py as
\* it is (AzureStorageManager has no list_blobs) the call raises
\* AttributeError every time
cleanup_cancelled_job_list_raises(w) ==
    /\ Goto(w, "p_cancelled_list", "p_cancelled_delete")
    /\ wjob[w].project_id \in DOMAIN projects
    /\ elog' = [elog EXCEPT ![w] = "Failed to list blobs for cleanup"]
    /\ UNCHANGED <<jobs, projects, next_id, now, wjob, wproject, wfiles,
                   last_cleanup_time, route_vars, blobs, pblobs, presp,
                   pcancel, pending_cancels, preq>>

\* _cleanup_cancelled_job: delete_blob of one listed blob, in its own try; for
\* a blob gone since the listing the call raises, the error is logged and the
\* loop goes on
cleanup_cancelled_job_delete(w) ==
    /\ pc[w] = "p_cancelled_delete"
    /\ \E blob \in wfiles[w].todo :
         /\ IF delete_blob_raises(pblobs, blob)
            THEN /\ elog' = [elog EXCEPT ![w] = "Failed to delete blob"]
                 /\ UNCHANGED pblobs
            ELSE /\ pblobs' = delete_blob(pblobs, blob)
                 /\ UNCHANGED elog
         /\ wfiles' = [wfiles EXCEPT ![w].todo = @ \ {blob}]
    /\ UNCHANGED <<jobs, projects, next_id, now, pc, wjob, wproject,
                   last_cleanup_time, route_vars, blobs, presp, pcancel,
                   pending_cancels, preq>>

\* _handle_cancellation after the cleanup: the output directory, the status
\* write, and process_job returns
handle_cancellation_status(w) ==
    /\ pc[w] = "p_cancelled_delete"
    /\ wfiles[w].todo = {}
    /\ SetStatus(w, "cancelled", [progress_message |-> "Job cancelled by user"])
    /\ Return(w)
    /\ UNCHANGED <<projects, next_id, now, last_cleanup_time, route_vars,
                   blobs, elog, pblobs, presp, pcancel, pending_cancels, preq>>

\* (mutant) a failure handler that records no error message
mark_failed_silent(w) ==
    /\ Goto(w, "p_error", "p_cleanup")
    /\ SetStatus(w, "failed", [progress_message |-> "Processing failed"])
    /\ UNCHANGED <<projects, next_id, now, wjob, wproject, wfiles,
                   last_cleanup_time, route_vars, blobs, elog, pblobs, presp,
                   pcancel, pending_cancels, preq>>

\* except Exception: mark_failed
mark_failed(w) ==
    /\ Goto(w, "p_error", "p_cleanup")
    /\ SetStatus(w, "failed",
         [error_message |-> wfiles[w].error,
          progress_message |-> "Processing failed"])
    /\ UNCHANGED <<projects, next_id, now, wjob, wproject, wfiles,
                   last_cleanup_time, route_vars, blobs, elog, pblobs, presp,
                   pcancel, pending_cancels, preq>>

\* --------------------------------------------- the job store raises
\* A call to the job store (pymongo) can raise. Each action below is the
\* except branch the code runs when the store call of that position raises.

\* the positions of the try blocks at which the run calls the store
\* (update_job_status, getProject, updateProject) -> the except branch entered
TryStoreCalls ==
    [o_validate |-> "o_error", o_convert |-> "o_error",
     o_thumbnail |-> "o_error", o_upload |-> "o_error",
     o_project_get |-> "o_error", o_project_put |-> "o_error",
     o_complete |-> "o_error",
     p_metadata |-> "p_error", p_thumbnail |-> "p_error",
     p_project1 |-> "p_error", p_conversion |-> "p_error",
     p_upload |-> "p_error", p_project2 |-> "p_error",
     p_complete |-> "p_error"]

\* a store call inside the try block raises: except Exception as e
try_store_raises(w) ==
    /\ \/ /\ pc[w] \in DOMAIN TryStoreCalls
          /\ Raise(w, TryStoreCalls[pc[w]], "store error")
       \/ /\ pc[w] = "run"
          /\ Raise(w, IF wjob[w].type = "ortho_conversion"
                      THEN "o_error" ELSE "p_error", "store error")
    /\ UNCHANGED <<jobs, projects, next_id, now, wjob, wproject,
                   last_cleanup_time, route_vars, blobs, elog, pblobs, presp, pcancel, pending_cancels, preq>>

\* is_job_cancelled raises inside _check_cancellation: logger.warning (no
\* error line), the run goes on
check_cancellation_raises(w) ==
    /\ pc[w] \in DOMAIN Checkpoints
    /\ pc' = [pc EXCEPT ![w] = Checkpoints[pc[w]]]
    /\ UNCHANGED <<jobs, projects, next_id, now, wjob, wproject, wfiles,
                   last_cleanup_time, route_vars, blobs, elog, pblobs, presp,
                   pcancel, pending_cancels, preq>>

\* update_job_status raises inside mark_failed, which has no try: the error
\* leaves process_job before cleanup_temp_files and reaches the loop's except
mark_failed_raises(w) ==
    /\ pc[w] = "p_error"
    /\ pc' = [pc EXCEPT ![w] = "loop_except"]
    /\ wjob' = [wjob EXCEPT ![w] = NoJob]
    /\ wproject' = [wproject EXCEPT ![w] = NoProject]
    /\ wfiles' = [wfiles EXCEPT ![w] = NoFiles]
    /\ UNCHANGED <<jobs, projects, next_id, now, last_cleanup_time,
                   route_vars, blobs, elog, pblobs, presp, pcancel, pending_cancels, preq>>

\* start: except Exception: log, time.sleep(poll_interval), next iteration
loop_except(w) ==
    /\ Goto(w, "loop_except", "loop")
    /\ elog' = [elog EXCEPT ![w] = "Error in worker loop"]
    /\ UNCHANGED <<jobs, projects, next_id, now, wjob, wproject, wfiles,
                   last_cleanup_time, route_vars, blobs, pblobs, presp, pcancel, pending_cancels, preq>>

\* update_job_status raises inside _handle_ortho_error: logged; cleanup runs
handle_ortho_error_raises(w) ==
    /\ Goto(w, "o_error_status", "o_cleanup")
    /\ elog' = [elog EXCEPT ![w] = "Failed to update status to failed"]
    /\ UNCHANGED <<jobs, projects, next_id, now, wjob, wproject, wfiles,
                   last_cleanup_time, route_vars, blobs, pblobs, presp,
                   pcancel, pending_cancels, preq>>

\* update_job_status raises inside _handle_ortho_cancellation: logged
handle_ortho_cancellation_raises(w) ==
    /\ Goto(w, "o_cancelled_status", "o_cleanup")
    /\ elog' = [elog EXCEPT ![w] = "Failed to update status to cancelled"]
    /\ UNCHANGED <<jobs, projects, next_id, now, wjob, wproject, wfiles,
                   last_cleanup_time, route_vars, blobs, pblobs, presp,
                   pcancel, pending_cancels, preq>>

\* update_job_status raises inside _handle_cancellation: logged
handle_cancellation_raises(w) ==
    /\ pc[w] = "p_cancelled_delete"
    /\ wfiles[w].todo = {}
    /\ elog' = [elog EXCEPT ![w] = "Failed to update status to cancelled"]
    /\ Return(w)
    /\ UNCHANGED <<jobs, projects, next_id, now, last_cleanup_time, route_vars,
                   blobs, pblobs, presp, pcancel, pending_cancels, preq>>

\* (mutant) a cleanup that a failing delete of the job file ends
cleanup_cancelled_job_file_raises_abort(w) ==
    /\ Goto(w, "p_cancelled", "p_cancelled_delete")
    /\ elog' = [elog EXCEPT ![w] = "Failed to delete Azure job file"]
    /\ UNCHANGED <<jobs, projects, next_id, now, wjob, wproject, wfiles,
                   last_cleanup_time, route_vars, blobs, pblobs, presp,
                   pcancel, pending_cancels, preq>>

\* delete_blob(job.azure_path) raises inside _cleanup_cancelled_job: logged,
\* the cleanup goes on
cleanup_cancelled_job_file_raises(w) ==
    /\ Goto(w, "p_cancelled", "p_cancelled_list")
    /\ elog' = [elog EXCEPT ![w] = "Failed to delete Azure job file"]
    /\ UNCHANGED <<jobs, projects, next_id, now, wjob, wproject, wfiles,
                   last_cleanup_time, route_vars, blobs, pblobs, presp,
                   pcancel, pending_cancels, preq>>

\* getProject raises inside _cleanup_cancelled_job: the outer except logs it,
\* no output blob is deleted
cleanup_cancelled_job_getProject_raises(w) ==
    /\ Goto(w, "p_cancelled_list", "p_cancelled_delete")
    /\ elog' = [elog EXCEPT ![w] = "Failed to cleanup Potree output files"]
    /\ UNCHANGED <<jobs, projects, next_id, now, wjob, wproject, wfiles,
                   last_cleanup_time, route_vars, blobs, pblobs, presp,
                   pcancel, pending_cancels, preq>>

\* delete_blob of a listed blob raises inside _cleanup_cancelled_job: logged,
\* the loop goes on with the next blob
cleanup_cancelled_job_delete_raises(w) ==
    /\ pc[w] = "p_cancelled_delete"
    /\ \E blob \in wfiles[w].todo :
         wfiles' = [wfiles EXCEPT ![w].todo = @ \ {blob}]
    /\ elog' = [elog EXCEPT ![w] = "Failed to delete blob"]
    /\ UNCHANGED <<jobs, projects, next_id, now, pc, wjob, wproject,
                   last_cleanup_time, route_vars, blobs, pblobs, presp,
                   pcancel, pending_cancels, preq>>

\* find_one_and_update raises inside get_next_job: logged, None is returned
\* and the loop sleeps one poll interval
get_next_job_raises(w) ==
    /\ Goto(w, "poll", "sleep")
    /\ elog' = [elog EXCEPT ![w] = "Error getting next job"]
    /\ UNCHANGED <<jobs, projects, next_id, now, wjob, wproject, wfiles,
                   last_cleanup_time, route_vars, blobs, pblobs, presp, pcancel, pending_cancels, preq>>

\* (mutant) a failed sweep that still records the time of the attempt
cleanup_old_jobs_raises_stamped(w, force) ==
    /\ pc[w] = (IF force THEN "after_job" ELSE "loop")
    /\ should_cleanup(last_cleanup_time[w], force, now)
    /\ pc' = [pc EXCEPT ![w] = IF force THEN "loop" ELSE "poll"]
    /\ elog' = [elog EXCEPT ![w] = "Error during job cleanup"]
    /\ last_cleanup_time' = [last_cleanup_time EXCEPT ![w] = now]
    /\ UNCHANGED <<jobs, projects, next_id, now, wjob, wproject, wfiles,
                   route_vars, blobs, pblobs, presp, pcancel, pending_cancels, preq>>

\* cleanup_old_jobs raises inside _check_and_run_cleanup: logged,
\* last_cleanup_time is not advanced, the loop iteration goes on
cleanup_old_jobs_raises(w, force) ==
    /\ pc[w] = (IF force THEN "after_job" ELSE "loop")
    /\ should_cleanup(last_cleanup_time[w], force, now)
    /\ pc' = [pc EXCEPT ![w] = IF force THEN "loop" ELSE "poll"]
    /\ elog' = [elog EXCEPT ![w] = "Error during job cleanup"]
    /\ UNCHANGED <<jobs, projects, next_id, now, wjob, wproject, wfiles,
                   last_cleanup_time, route_vars, blobs, pblobs, presp, pcancel, pending_cancels, preq>>

\* update_many raises inside startup_event: logged, the worker thread starts
startup_event_raises(w) ==
    /\ Goto(w, "boot", "loop")
    /\ elog' = [elog EXCEPT ![w] = "Failed to reset stale jobs"]
    /\ UNCHANGED <<jobs, projects, next_id, now, wjob, wproject, wfiles,
                   last_cleanup_time, route_vars, blobs, pblobs, presp, pcancel, pending_cancels, preq>>

\* Step 5 when the PotreeConverter process never exits: convert loops on
\* proc.poll() with no time limit, so the call never returns
pc_conversion_never_exits(w) ==
    /\ Goto(w, "p_conversion", "p_conversion_blocked")
    /\ SetStatus(w, "processing",
         [current_step |-> "conversion",
          progress_message |-> "Converting to Potree format..."])
    /\ wfiles' = [wfiles EXCEPT ![w].output_dir = TRUE]
    /\ UNCHANGED <<projects, next_id, now, wjob, wproject,
                   last_cleanup_time, route_vars, blobs, elog, pblobs, presp, pcancel, pending_cancels, preq>>

\* ------------------------------------------------------------ behaviours
\* the steps of the process of worker w: its startup hook, its loop, and the
\* two pipelines
LoopStep(w) ==
    \/ startup_event(w)
    \/ check_and_run_cleanup(w, FALSE)
    \/ check_and_run_cleanup(w, TRUE)
    \/ get_next_job(w)
    \/ sleep(w)
    \/ check_cancellation(w)

OrthoStep(w) ==
    \/ ortho_start(w)
    \/ ortho_download(w)
    \/ ortho_validate(w)
    \/ ortho_convert(w)
    \/ ortho_thumbnail(w)
    \/ ortho_upload(w)
    \/ ortho_upload_png(w)
    \/ ortho_upload_thumbnail(w)
    \/ ortho_project_get(w)
    \/ ortho_project_put(w)
    \/ ortho_complete(w)
    \/ handle_ortho_cancellation(w)
    \/ handle_ortho_cancellation_status(w)
    \/ handle_ortho_error(w)
    \/ handle_ortho_error_status(w)
    \/ ortho_cleanup(w)

PointCloudStep(w) ==
    \/ pc_get_project(w)
    \/ pc_metadata(w)
    \/ pc_thumbnail(w)
    \/ pc_thumbnail_upload(w)
    \/ pc_update_project_metadata(w)
    \/ pc_conversion(w)
    \/ pc_upload(w)
    \/ upload_potree_output(w)
    \/ pc_update_project_cloud(w)
    \/ pc_complete(w)
    \/ handle_cancellation(w)
    \/ cleanup_cancelled_job_list(w)
    \/ cleanup_cancelled_job_list_raises(w)
    \/ cleanup_cancelled_job_delete(w)
    \/ handle_cancellation_status(w)
    \/ mark_failed(w)
    \/ pc_cleanup(w)

\* the program with the worker processes W deployed and at most max_jobs
\* submissions, of either type, that the cancel route can be called for
NextOf(W, max_jobs) ==
    \/ Tick
    \/ process_point_cloud(max_jobs)
    \/ process_point_cloud_create
    \/ upload_ortho(max_jobs)
    \/ upload_ortho_upload
    \/ upload_ortho_insert
    \/ \E j \in 1..max_jobs : cancel_job_route_check(j)
    \/ \E j \in 1..max_jobs : cancel_job_route_update(j)
    \/ \E w \in W : LoopStep(w)
    \/ \E w \in W : OrthoStep(w)
    \/ \E w \in W : PointCloudStep(w)

\* the routes of routes/projects.py that write the project collection or the
\* project's blobs
ProjectRoutes ==
    \/ \E p \in ProjectIds : upload_project(p)
    \/ \E p \in ProjectIds : deleteProject(p)
    \/ delete_project_files_list
    \/ delete_project_files_delete
    \/ \E p \in ProjectIds : update_project(p)
    \/ update_project_write
    \/ \E p \in ProjectIds : refresh_project_urls(p)
    \/ refresh_project_urls_write

\* One deployed process (the reference deployment), NumSharedJobs submissions
\* and the project routes.
Next ==
    \/ NextOf({1}, NumSharedJobs)
    \/ ProjectRoutes

Spec == Init /\ [][Next]_vars

\* NumWorkers processes sharing the store, NumSharedJobs submissions of either
\* type and the clock, with no cancel request (so no checkpoint ever sees the
\* flag). A process that stops taking steps has crashed; a process that boots
\* later is a restart.
NextWorkers ==
    \/ Tick
    \/ process_point_cloud(NumSharedJobs)
    \/ process_point_cloud_create
    \/ upload_ortho(NumSharedJobs)
    \/ upload_ortho_upload
    \/ upload_ortho_insert
    \/ \E w \in Workers : LoopStep(w)
    \/ \E w \in Workers : ortho_start(w)
    \/ \E w \in Workers : ortho_download(w)
    \/ \E w \in Workers : ortho_validate(w)
    \/ \E w \in Workers : ortho_convert(w)
    \/ \E w \in Workers : ortho_thumbnail(w)
    \/ \E w \in Workers : ortho_upload(w)
    \/ \E w \in Workers : ortho_upload_png(w)
    \/ \E w \in Workers : ortho_upload_thumbnail(w)
    \/ \E w \in Workers : ortho_project_get(w)
    \/ \E w \in Workers : ortho_project_put(w)
    \/ \E w \in Workers : ortho_complete(w)
    \/ \E w \in Workers : handle_ortho_error(w)
    \/ \E w \in Workers : handle_ortho_error_status(w)
    \/ \E w \in Workers : ortho_cleanup(w)
    \/ \E w \in Workers : pc_get_project(w)
    \/ \E w \in Workers : pc_metadata(w)
    \/ \E w \in Workers : pc_thumbnail(w)
    \/ \E w \in Workers : pc_thumbnail_upload(w)
    \/ \E w \in Workers : pc_update_project_metadata(w)
    \/ \E w \in Workers : pc_conversion(w)
    \/ \E w \in Workers : pc_upload(w)
    \/ \E w \in Workers : upload_potree_output(w)
    \/ \E w \in Workers : pc_update_project_cloud(w)
    \/ \E w \in Workers : pc_complete(w)
    \/ \E w \in Workers : mark_failed(w)
    \/ \E w \in Workers : pc_cleanup(w)
SpecWorkers == Init /\ [][NextWorkers]_vars

\* The submit route where ids can collide, the cancel route and the clock.
NextSubmit ==
    \/ Tick
    \/ process_point_cloud_any
    \/ process_point_cloud_create
    \/ process_point_cloud_duplicate
    \/ \E j \in JobIds : cancel_job_route_check(j)
    \/ \E j \in JobIds : cancel_job_route_update(j)
SpecSubmit == Init /\ [][NextSubmit]_vars

\* One process, NumSharedJobs submissions, and a job store and a blob store
\* whose calls can fail.
NextFaulty ==
    \/ NextOf({1}, NumSharedJobs)
    \/ try_store_raises(1)
    \/ check_cancellation_raises(1)
    \/ mark_failed_raises(1)
    \/ loop_except(1)
    \/ handle_ortho_error_raises(1)
    \/ handle_ortho_cancellation_raises(1)
    \/ handle_cancellation_raises(1)
    \/ cleanup_cancelled_job_file_raises(1)
    \/ cleanup_cancelled_job_getProject_raises(1)
    \/ cleanup_cancelled_job_delete_raises(1)
    \/ pc_cleanup_raises(1)
    \/ get_next_job_raises(1)
    \/ cleanup_old_jobs_raises(1, FALSE)
    \/ cleanup_old_jobs_raises(1, TRUE)
    \/ startup_event_raises(1)
SpecFaulty == Init /\ [][NextFaulty]_vars

\* One process, NumSharedJobs submissions and the project-wide cancel route.
NextProjectCancel ==
    \/ NextOf({1}, NumSharedJobs)
    \/ \E p \in ProjectIds : cancel_project_jobs_scan(p)
    \/ \E j \in JobIds : cancel_project_jobs_cancel(j)
SpecProjectCancel == Init /\ [][NextProjectCancel]_vars

\* the requests in flight that end with a process, when W are the processes
\* deployed and w is the one that ends: all of them when w is the only
\* process; otherwise those w was serving, which is any part of them (a
\* request reaches whichever process the deployment hands it to). A request
\* is a coroutine or a frame of its process: what it has not yet done is
\* never done, and it sends no response.
\*   A: suspended at the await of upload_ortho;   C: cancel requests past
\*   their checks;   p: the submit or project route between two calls;
\*   c: the project-wide cancel between two updates
requests_end(w, W, A, C, p, c) ==
    /\ (W = {w}) =>
          /\ A = awaiting
          /\ C = {j \in JobIds : creq[j]}
          /\ p /\ c
    /\ awaiting' = awaiting \ A
    /\ creq' = [j \in JobIds |-> creq[j] /\ j \notin C]
    /\ creq_cancelled_at' =
          [j \in JobIds |-> IF j \in C THEN NoTime ELSE creq_cancelled_at[j]]
    /\ preq' = IF p THEN NoRequest ELSE preq
    /\ pcancel' = IF c /\ pcancel.stage = "cancelling" THEN NoCancel ELSE pcancel

\* the process of worker w, one of the processes W, has ended and is started
\* again: the daemon thread and its locals are gone and so are the requests
\* it was serving; the new process begins at its startup hook
process_started_again(w, W) ==
    /\ pc' = [pc EXCEPT ![w] = "boot"]
    /\ wjob' = [wjob EXCEPT ![w] = NoJob]
    /\ wproject' = [wproject EXCEPT ![w] = NoProject]
    /\ wfiles' = [wfiles EXCEPT ![w] = NoFiles]
    /\ last_cleanup_time' = [last_cleanup_time EXCEPT ![w] = NoTime]
    /\ \E A \in SUBSET awaiting, C \in SUBSET {j \in JobIds : creq[j]},
          p \in BOOLEAN, c \in BOOLEAN :
          requests_end(w, W, A, C, p, c)
    /\ UNCHANGED <<jobs, projects, next_id, now, cresp, blobs, elog, pblobs,
                   presp, pending_cancels>>

\* the process is stopped between two polls and started again
process_restart(w, W) ==
    /\ pc[w] = "sleep"
    /\ process_started_again(w, W)

\* the process is killed anywhere else in its loop or in a run, and started
\* again
process_crash(w, W) ==
    /\ pc[w] \notin {"boot", "sleep"}
    /\ process_started_again(w, W)

\* NumWorkers processes, the last of which can be restarted, NumSharedJobs
\* ortho submissions and the cancel route.
NextRestart ==
    \/ upload_ortho(NumSharedJobs)
    \/ upload_ortho_upload
    \/ upload_ortho_insert
    \/ \E j \in 1..NumSharedJobs : cancel_job_route_check(j)
    \/ \E j \in 1..NumSharedJobs : cancel_job_route_update(j)
    \/ process_restart(NumWorkers, Workers)
    \/ \E w \in Workers : LoopStep(w)
    \/ \E w \in Workers : OrthoStep(w)
SpecRestart == Init /\ [][NextRestart]_vars

\* One process, NumSharedJobs submissions of either type, the cancel route and
\* the clock.
NextRunning == NextOf({1}, NumSharedJobs)
SpecRunning == Init /\ [][NextRunning]_vars

\* the same, where the thread of the worker keeps running, so a step of it
\* that stays possible is eventually taken. Requests and the clock are under
\* no such obligation.
FairRunning ==
    SpecRunning /\ WF_vars(LoopStep(1) \/ OrthoStep(1) \/ PointCloudStep(1))

\* One process and NumJobs point-cloud submissions to one project, without
\* the clock.
NextQueue ==
    \/ process_point_cloud(NumJobs)
    \/ process_point_cloud_create
    \/ \E j \in JobIds : cancel_job_route_check(j)
    \/ \E j \in JobIds : cancel_job_route_update(j)
    \/ LoopStep(1)
    \/ PointCloudStep(1)
SpecQueue == Init /\ [][NextQueue]_vars

\* One running process and NumJobs ortho submissions, without the clock.
NextOrthoQueue ==
    \/ upload_ortho(NumJobs)
    \/ upload_ortho_upload
    \/ upload_ortho_insert
    \/ \E j \in JobIds : cancel_job_route_check(j)
    \/ \E j \in JobIds : cancel_job_route_update(j)
    \/ LoopStep(1)
    \/ OrthoStep(1)
FairQueue ==
    /\ Init
    /\ [][NextOrthoQueue]_vars
    /\ WF_vars(LoopStep(1) \/ OrthoStep(1))

\* One process that can be killed and started again at any point, NumJobs
\* ortho submissions and the cancel route, without the clock.
NextCrashQueue ==
    \/ NextOrthoQueue
    \/ process_restart(1, {1})
    \/ process_crash(1, {1})
SpecCrashQueue == Init /\ [][NextCrashQueue]_vars

\* One process, NumSharedJobs submissions, and a PotreeConverter that can hang.
NextHang ==
    \/ NextOf({1}, NumSharedJobs)
    \/ pc_conversion_never_exits(1)
SpecHang == Init /\ [][NextHang]_vars

\* the same, where the process keeps running: a step that stays possible is
\* eventually taken
FairHang == SpecHang /\ WF_vars(NextHang)


\* ------------------------------------------- concurrent claims on a store
\* A store the program can have produced: every id handed out, each job of
\* either type, in any status, created before or after the last tick.
StoredJob(type, status, created) ==
    [(IF type = "ortho_conversion"
      THEN upload_ortho_doc(1, None, created)
      ELSE create_job_doc(1, None, created))
     EXCEPT !.status = status,
            !.cancelled = (status = "cancelled"),
            !.completed_at = IF status \in Terminal THEN created ELSE NoTime]

StoredJobs ==
    {StoredJob(ty, st, cr) :
        ty \in JobTypes,
        st \in {"pending", "processing"} \cup Terminal,
        cr \in {0, MaxTime}}

\* NumWorkers booted workers are all about to call get_next_job
InitClaim ==
    /\ \E f \in [JobIds -> StoredJobs] :
         jobs = [j \in JobIds |->
                   [f[j] EXCEPT !.azure_path =
                      blob_name(j, IF f[j].type = "ortho_conversion"
                                   THEN ".tif" ELSE ".laz")]]
    /\ projects = [p \in ProjectIds |-> EmptyProject]
    /\ next_id = NumJobs
    /\ now = MaxTime
    /\ pc = [w \in Workers |-> "poll"]
    /\ wjob = [w \in Workers |-> NoJob]
    /\ wproject = [w \in Workers |-> NoProject]
    /\ wfiles = [w \in Workers |-> NoFiles]
    /\ last_cleanup_time = [w \in Workers |-> MaxTime]
    /\ creq = [j \in JobIds |-> FALSE]
    /\ creq_cancelled_at = [j \in JobIds |-> NoTime]
    /\ cresp = NoResponse
    /\ blobs = {jobs[j].azure_path : j \in JobIds}
    /\ pblobs = {}
    /\ presp = NoResponse
    /\ pcancel = NoCancel
    /\ pending_cancels = {}
    /\ elog = [w \in Workers |-> None]
    /\ preq = NoRequest
    /\ awaiting = {}

\* each of them makes its one call, in any order
NextClaim == \E w \in Workers : get_next_job(w)
SpecClaim == InitClaim /\ [][NextClaim]_vars

\* ------------------------------------------------------------------ C1
Holders(j) == {w \in Workers : wjob[w].id = j}
Pending == {j \in DOMAIN jobs : jobs[j].status = "pending"}
Claimed == {j \in JobIds : Holders(j) # {}}
AllReturned == \A w \in Workers : pc[w] # "poll"
Min(a, b) == IF a < b THEN a ELSE b

\* C1: N concurrent get_next_job calls against M pending jobs: no job is
\* returned to two callers, every call returns a job or "no job" (never an
\* error), a call returns "no job" only when no pending job is left, and once
\* all calls have returned min(N, M) of them hold a job (each a different one,
\* now in status processing) and the other N - M got "no job".
C1_ClaimExactlyOnce ==
    /\ \A j \in JobIds : Cardinality(Holders(j)) <= 1
    /\ \A w \in Workers : pc[w] \in {"poll", "run", "sleep"}
    /\ \A w \in Workers : pc[w] = "run" <=> wjob[w].id # 0
    /\ \A j \in Claimed : jobs[j].status = "processing"
    /\ (\E w \in Workers : pc[w] = "sleep") => Pending = {}
    /\ AllReturned =>
         Cardinality(Claimed) =
           Min(NumWorkers, Cardinality(Claimed) + Cardinality(Pending))

\* all calls returned: one caller won a job, another got "no job"
C1_Witness ==
    /\ AllReturned
    /\ \E w \in Workers : pc[w] = "run"
    /\ \E w \in Workers : pc[w] = "sleep"


\* ------------------------------------------------------- claim vocabulary
Executing(w) == wjob[w].id # 0
Rank(status) ==
    CASE status = "pending" -> 0
      [] status = "processing" -> 1
      [] OTHER -> 2
SweepStep == \E w \in Workers : startup_event(w)
RetentionStep == \E w \in Workers, force \in BOOLEAN : check_and_run_cleanup(w, force)

\* ------------------------------------------------------------------ C2
\* C2: the stored status of a job only moves forward through pending ->
\* processing -> {completed, failed, cancelled}: a terminal status never
\* changes (the record may only be deleted), and processing goes back to
\* pending only in a step of the startup stale sweep.
C2_StatusMovesForward ==
    [][\A j \in DOMAIN jobs :
         j \in DOMAIN jobs' =>
           /\ jobs[j].status \in Terminal => jobs'[j].status = jobs[j].status
           /\ Rank(jobs'[j].status) < Rank(jobs[j].status) =>
                /\ jobs[j].status = "processing"
                /\ jobs'[j].status = "pending"
                /\ SweepStep]_vars

\* ------------------------------------------------------------------ C3
\* C3: a job whose cancelled flag is true is never in status completed.
C3_CancelledNeverCompleted ==
    \A j \in DOMAIN jobs : jobs[j].cancelled => jobs[j].status # "completed"

\* ------------------------------------------------------------------ C4
\* C4: at most one worker process is executing the pipeline of a given job at
\* any time.
C4_OneWorkerPerJob ==
    \A w1, w2 \in Workers :
        (w1 # w2 /\ Executing(w1) /\ Executing(w2)) => JobId(w1) # JobId(w2)

\* ------------------------------------------------------------------ C5
\* C5: once a job's status is completed, failed or cancelled, no field of its
\* record is written again; the record can only disappear, and only in a step
\* of the retention sweep.
C5_TerminalRecordImmutable ==
    [][\A j \in DOMAIN jobs :
         jobs[j].status \in Terminal =>
           IF j \in DOMAIN jobs' THEN jobs'[j] = jobs[j] ELSE RetentionStep]_vars

\* ------------------------------------------------------------------ C6
\* the positions at which step 1 of a pipeline is performed
Step1Pcs == {"o_download", "p_metadata"}

\* the first checkpoint of each pipeline
FirstCheckPcs == {"o_check1", "p_check0"}

\* C6: a run that starts with the job's cancelled flag already true goes from
\* its start to the first checkpoint without entering step 1, and the first
\* checkpoint, finding the flag set, sends the run to the cancellation path.
C6_CancelledBeforeStep1 ==
    [][\A w \in Workers :
         (is_job_cancelled(jobs, JobId(w)) /\ pc'[w] # pc[w]) =>
            /\ pc[w] = "run" => pc'[w] \notin Step1Pcs
            /\ pc[w] \in FirstCheckPcs =>
                 pc'[w] \in {"o_cancelled", "p_cancelled"}]_vars

\* ------------------------------------------------------------------ C7
\* the positions at which a step with an external side effect begins:
\* download, convert, upload, parent update (and the point-cloud preview,
\* which uploads)
SideEffectPcs ==
    {"o_download", "o_convert", "o_upload", "o_project_get",
     "p_thumbnail", "p_project1", "p_conversion", "p_upload", "p_project2"}

\* C7: in both pipelines every step with an external side effect is entered
\* from a cancellation checkpoint (so also the first one, at the start of the
\* run).
C7_CheckpointBeforeSideEffect ==
    [][\A w \in Workers :
         (pc'[w] # pc[w] /\ pc'[w] \in SideEffectPcs)
            => pc[w] \in DOMAIN Checkpoints]_vars

\* ------------------------------------------------------------------ C8
\* C8: a cancel request that finds the job completed or failed is answered
\* 409, is not passed on to DB.cancel_job, and leaves the job collection as it
\* was.
C8_CancelOfFinishedRejected ==
    [][\A j \in DOMAIN jobs :
         (jobs[j].status \in {"completed", "failed"} /\ cancel_job_route_check(j))
            => /\ cresp' = [job_id |-> j, code |-> 409]
               /\ ~creq'[j]
               /\ jobs' = jobs]_vars

\* a job that no cancel was ever accepted for is completed or failed, and the
\* last cancel request, for that job, was answered 409
C8_Witness ==
    /\ cresp.code = 409
    /\ cresp.job_id \in DOMAIN jobs
    /\ jobs[cresp.job_id].status \in {"completed", "failed"}
    /\ ~jobs[cresp.job_id].cancelled
    /\ ~creq[cresp.job_id]

\* ------------------------------------------------------------------ C9
\* C9: a cancel request that finds the job already cancelled gets a non-error
\* answer and leaves every field of the record as the first cancel left it.
C9_SecondCancelIdempotent ==
    [][\A j \in DOMAIN jobs :
         (jobs[j].status = "cancelled" /\ cancel_job_route_check(j))
            => /\ cresp'.job_id = j
               /\ cresp'.code < 400
               /\ jobs' = jobs]_vars

\* ------------------------------------------------------------------ C10
JobsOf(p) == {j \in DOMAIN jobs : jobs[j].project_id = p}

\* C10: when every run made so far on a parent ended with its job failed or
\* cancelled (no job of the parent completed, none still to run or running,
\* none deleted), the parent document is the one that existed before the runs.
C10_ParentUntouchedUnlessCompleted ==
    \A p \in DOMAIN projects :
        ( /\ DOMAIN jobs = 1..next_id
          /\ \A j \in JobsOf(p) : jobs[j].status \in {"failed", "cancelled"}
          /\ \A w \in Workers : ~Executing(w)
          /\ \A j \in JobIds : ~creq[j] )
        => projects[p] = EmptyProject

\* ------------------------------------------------------------------ C11
\* the record field a completed run of the job's type leaves on the parent
HasDerivedReference(P, type) ==
    IF type = "ortho_conversion"
    THEN P.ortho.url # None /\ P.ortho.bounds # None
    ELSE P.cloud # None

\* C11: when the run of a job of either type, never cancelled, has had all its
\* steps succeed and writes its last status, the job is in status completed
\* with completed_at set to the time of that write, and the parent then holds
\* a non-empty derived reference (cloud URL for a point-cloud job; overlay URL
\* and bounds for an ortho job).
C11_SuccessfulRunCompletes ==
    [][\A w \in Workers :
         ( /\ pc[w] \in {"o_complete", "p_complete"}
           /\ pc'[w] # pc[w]
           /\ JobId(w) \in DOMAIN jobs
           /\ ~jobs[JobId(w)].cancelled )
         => /\ pc'[w] \in {"o_cleanup", "p_cleanup"}
            /\ jobs'[JobId(w)].status = "completed"
            /\ jobs'[JobId(w)].completed_at = now
            /\ jobs'[JobId(w)].completed_at # NoTime
            /\ wjob[w].project_id \in DOMAIN projects'
            /\ HasDerivedReference(projects'[wjob[w].project_id],
                                   wjob[w].type)]_vars

\* ------------------------------------------------------------------ C12
\* a step of worker w that ends its run
RunEnds(w) == Executing(w) /\ wjob'[w].id = 0

\* C12: when a worker's run ends and leaves the job of either type in a
\* terminal status, the blob at the job's azure_path no longer exists.
C12_ScratchBlobDeletedAtTerminal ==
    [][\A w \in Workers :
         ( /\ RunEnds(w)
           /\ JobId(w) \in DOMAIN jobs'
           /\ jobs'[JobId(w)].status \in Terminal )
         => wjob[w].azure_path \notin blobs']_vars

\* ------------------------------------------------------------------ C13
\* nothing is in progress: no request in flight, every started worker has
\* polled, found no pending job and sleeps
Quiescent ==
    /\ \A j \in JobIds : ~creq[j]
    /\ \A w \in Workers : pc[w] \in {"boot", "sleep"}
    /\ \E w \in Workers : pc[w] = "sleep"

\* the record is as the submission wrote it but for a cancel: no run wrote it
NeverRun(j) ==
    /\ jobs[j].progress_message \in {None, "Ortho conversion job queued"}
    /\ jobs[j].error_message = None

\* C13: in no quiescent state is there a job that was cancelled while pending
\* (status cancelled, never run) whose scratch blob still exists.
C13_PendingCancelDeletesScratch ==
    Quiescent =>
        \A j \in DOMAIN jobs :
            (jobs[j].status = "cancelled" /\ NeverRun(j))
                => jobs[j].azure_path \notin blobs

\* ------------------------------------------------------------------ C14
ErrorPcs == {"o_error", "p_error"}

\* the except branches: position -> the position that follows it
ExceptBranch ==
    [p_error |-> "p_cleanup", o_error |-> "o_error_status",
     o_error_status |-> "o_cleanup"]

\* the positions of the except branches at which the failed status is written
FailedWritePcs == {"p_error", "o_error_status"}

\* the positions of the cleanup that ends a run
CleanupEndPcs == {"p_cleanup", "o_cleanup"}

\* C14: a step that raises takes the run straight to its except branch with
\* the error's message; the except branch makes no project write and, for a
\* job that is not cancelled, writes status failed with error_message equal to
\* the error's message and completed_at set; the cleanup then ends the run
\* with the run's local files removed (and for a point-cloud job the blob at
\* azure_path), the job still failed with that message.
C14_StepFailureFailsJob ==
    [][\A w \in Workers :
         /\ (pc'[w] \in ErrorPcs /\ pc[w] \notin ErrorPcs)
              => /\ wfiles'[w].error # None
                 /\ projects' = projects
         /\ (pc[w] \in DOMAIN ExceptBranch /\ pc'[w] # pc[w])
              => /\ pc'[w] = ExceptBranch[pc[w]]
                 /\ projects' = projects
                 /\ ( /\ pc[w] \in FailedWritePcs
                      /\ JobId(w) \in DOMAIN jobs
                      /\ ~jobs[JobId(w)].cancelled )
                    => /\ jobs'[JobId(w)].status = "failed"
                       /\ jobs'[JobId(w)].error_message = wfiles[w].error
                       /\ jobs'[JobId(w)].error_message # None
                       /\ jobs'[JobId(w)].completed_at = now
         /\ ( /\ pc[w] \in CleanupEndPcs
              /\ wfiles[w].error # None
              /\ pc'[w] # pc[w] )
              => /\ pc'[w] = "after_job"
                 /\ projects' = projects
                 /\ wfiles'[w] = NoFiles
                 /\ wjob[w].type = "point_cloud"
                      => wjob[w].azure_path \notin blobs'
                 /\ (JobId(w) \in DOMAIN jobs' /\ ~jobs'[JobId(w)].cancelled)
                      => /\ jobs'[JobId(w)].status = "failed"
                         /\ jobs'[JobId(w)].error_message = wfiles[w].error]_vars

\* a point-cloud run failed in its conversion step: the job is failed with the
\* converter's message, nothing of the run is left, the cloud was never set
C14_Witness ==
    \E j \in DOMAIN jobs :
        /\ jobs[j].status = "failed"
        /\ ~jobs[j].cancelled
        /\ jobs[j].error_message = "PotreeConverter failed"
        /\ jobs[j].completed_at # NoTime
        /\ jobs[j].azure_path \notin blobs
        /\ jobs[j].project_id \in DOMAIN projects
        /\ projects[jobs[j].project_id].cloud = None
        /\ \A w \in Workers : ~Executing(w)

\* ------------------------------------------------------------------ C15
\* the preview step of each pipeline: position -> the position that follows it
AfterPreview ==
    [o_thumbnail |-> "o_check4", p_thumbnail |-> "p_thumbnail_upload",
     p_thumbnail_upload |-> "p_project1"]

\* C15: the preview step, whether the preview is generated and uploaded or
\* not, goes on to the position that follows it in its pipeline with no error
\* raised; its status write leaves the job in status processing and its
\* generation and upload leave the job record as it was (never failed).
C15_PreviewFailureNonFatal ==
    [][\A w \in Workers :
         (pc[w] \in DOMAIN AfterPreview /\ pc'[w] # pc[w])
         => /\ pc'[w] = AfterPreview[pc[w]]
            /\ wfiles'[w].error = None
            /\ IF pc[w] = "p_thumbnail_upload"
               THEN jobs' = jobs
               ELSE JobId(w) \in DOMAIN jobs
                      => jobs'[JobId(w)].status = "processing"]_vars

\* an ortho job whose preview failed has completed: the parent holds the
\* overlay without a thumbnail
C15_Witness ==
    \E j \in DOMAIN jobs :
        /\ jobs[j].type = "ortho_conversion"
        /\ jobs[j].status = "completed"
        /\ jobs[j].project_id \in DOMAIN projects
        /\ projects[jobs[j].project_id].ortho.url # None
        /\ projects[jobs[j].project_id].ortho.thumbnail = None

\* ------------------------------------------------------------------ C16
\* C16: whatever fails during a run, a step or a call to the job store, the
\* run ends by returning to the scheduler loop (never in the loop's except
\* branch) and the job has been given a terminal status.
C16_NoErrorEscapesRun ==
    [][\A w \in Workers :
         (RunEnds(w) /\ JobId(w) \in DOMAIN jobs')
         => /\ pc'[w] = "after_job"
            /\ jobs'[JobId(w)].status \in Terminal]_vars

\* ------------------------------------------------------------------ C17
\* C17: when the job store raises during the claim or during the retention
\* sweep, the loop does not stop: the worker stays in the loop, its next
\* position is the sleep of one poll interval, and from the sleep it goes to
\* the top of the loop and polls again. The store and the worker's job are
\* left as they were.
C17_StoreErrorWaitsThenRetries ==
    [][\A w \in Workers :
         /\ ( \/ get_next_job_raises(w)
              \/ \E force \in BOOLEAN : cleanup_old_jobs_raises(w, force) )
            => /\ pc'[w] = "sleep"
               /\ jobs' = jobs /\ wjob' = wjob
         /\ (pc[w] = "sleep" /\ pc'[w] # pc[w]) => pc'[w] = "loop"
         /\ (pc[w] = "loop" /\ pc'[w] # pc[w]) => pc'[w] = "poll"
         /\ pc'[w] # "stopped"]_vars

\* ------------------------------------------------------------------ C18
\* C18: the job a claim returns was pending at the moment of the claim and no
\* job pending at that moment has a smaller created_at (so a single worker
\* claims pending jobs in creation order, whatever their ids).
C18_ClaimOldestPending ==
    [][\A w \in Workers :
         (pc[w] = "poll" /\ pc'[w] = "run")
         => /\ wjob'[w].id \in DOMAIN jobs
            /\ jobs[wjob'[w].id].status = "pending"
            /\ \A k \in DOMAIN jobs :
                 jobs[k].status = "pending"
                   => jobs[wjob'[w].id].created_at <= jobs[k].created_at]_vars

\* a worker holds the older job while a younger one with a smaller id is
\* still pending
C18_Witness ==
    \E w \in Workers, k \in DOMAIN jobs :
        /\ Executing(w)
        /\ JobId(w) \in DOMAIN jobs
        /\ jobs[k].status = "pending"
        /\ jobs[JobId(w)].created_at < jobs[k].created_at
        /\ k < JobId(w)

\* ---------------------------------------------- the retention sweep alone
\* the clock at the sweep, and the creation times of the stored jobs: ages
\* RetentionHours + 2, + 1 and + 0 hours and one unit more, one hour and none
SweepNow == (RetentionHours + 2) * Hour
CreatedTimes ==
    {0, Hour, 2 * Hour - 1, 2 * Hour, SweepNow - Hour, SweepNow}

\* the time of the worker's last sweep: none yet, an hour ago, less than an
\* hour ago, just now
SweepTimes == {NoTime, SweepNow - Hour, SweepNow - 1, SweepNow}

SweptJobs ==
    {StoredJob(ty, st, cr) :
        ty \in JobTypes,
        st \in {"pending", "processing"} \cup Terminal,
        cr \in CreatedTimes}

\* a store of jobs of every age and status that the last sweep, if there was
\* one, has left; the workers are at the regular check of their loops or at
\* the check that follows a job
InitSweep ==
    /\ \E f \in [JobIds -> SweptJobs], last \in SweepTimes,
          at \in {"loop", "after_job"} :
         /\ last # NoTime =>
              cleanup_old_jobs(f, RetentionHours, last) = f
         /\ jobs = [j \in JobIds |->
                     [f[j] EXCEPT !.azure_path =
                        blob_name(j, IF f[j].type = "ortho_conversion"
                                     THEN ".tif" ELSE ".laz")]]
         /\ last_cleanup_time = [w \in Workers |-> last]
         /\ pc = [w \in Workers |-> at]
    /\ projects = [p \in ProjectIds |-> EmptyProject]
    /\ next_id = NumJobs
    /\ now = SweepNow
    /\ wjob = [w \in Workers |-> NoJob]
    /\ wproject = [w \in Workers |-> NoProject]
    /\ wfiles = [w \in Workers |-> NoFiles]
    /\ creq = [j \in JobIds |-> FALSE]
    /\ creq_cancelled_at = [j \in JobIds |-> NoTime]
    /\ cresp = NoResponse
    /\ blobs = {jobs[j].azure_path : j \in JobIds}
    /\ pblobs = {}
    /\ presp = NoResponse
    /\ pcancel = NoCancel
    /\ pending_cancels = {}
    /\ elog = [w \in Workers |-> None]
    /\ preq = NoRequest
    /\ awaiting = {}

\* the regular check of the loop and the forced check after a job
NextSweep ==
    \E w \in Workers, force \in BOOLEAN : check_and_run_cleanup(w, force)
SpecSweep == InitSweep /\ [][NextSweep]_vars

\* ------------------------------------------------------------------ C19
\* C19: a retention sweep that runs deletes exactly the records whose
\* created_at is less than now - 72 hours, whatever their status, and leaves
\* every other record as it was.
C19_SweepDeletesExactlyExpired ==
    [][\A w \in Workers :
         (pc[w] = "loop" /\ pc'[w] = "poll"
            /\ should_cleanup(last_cleanup_time[w], FALSE, now))
         => /\ DOMAIN jobs' =
                 {j \in DOMAIN jobs :
                     jobs[j].created_at >= now - RetentionHours * Hour}
            /\ \A j \in DOMAIN jobs' : jobs'[j] = jobs[j]
            /\ last_cleanup_time'[w] = now]_vars

\* after the sweep a job created 73 hours before it is gone while a job that
\* was not finished and was created exactly 72 hours before it is kept
C19_Witness ==
    /\ \E w \in Workers : pc[w] = "poll"
    /\ DOMAIN jobs # JobIds
    /\ \E j \in DOMAIN jobs :
         /\ jobs[j].created_at = now - RetentionHours * Hour
         /\ jobs[j].status \in {"pending", "processing"}

\* ------------------------------------------------------------------ C20
\* C20: the startup stale sweep turns every job in status processing into the
\* same record with status pending and updated_at set to the time of the sweep
\* (not earlier than before), and leaves every other job, and the set of jobs,
\* unchanged.
C20_StaleSweepFrame ==
    [][\A w \in Workers :
         (pc[w] = "boot" /\ pc'[w] # pc[w])
         => /\ DOMAIN jobs' = DOMAIN jobs
            /\ \A j \in DOMAIN jobs :
                 IF jobs[j].status = "processing"
                 THEN /\ jobs'[j] = [jobs[j] EXCEPT !.status = "pending",
                                                    !.updated_at = now]
                      /\ jobs'[j].updated_at >= jobs[j].updated_at
                 ELSE jobs'[j] = jobs[j]]_vars

\* the sweep of a starting process has reset a job that was cancelled while a
\* run had it: pending again, the flag and the run's progress message kept
C20_Witness ==
    \E j \in DOMAIN jobs :
        /\ jobs[j].status = "pending"
        /\ jobs[j].cancelled
        /\ jobs[j].progress_message \notin {None, "Ortho conversion job queued"}
        /\ jobs[j].completed_at # NoTime

\* ------------------------------------------------------------------ C21
\* C21: every job whose status is completed, failed or cancelled has
\* completed_at set, whichever operation wrote the terminal status (the cancel
\* route, the run's completion, its failure handler or its cancellation
\* handler).
C21_TerminalHasCompletedAt ==
    \A j \in DOMAIN jobs :
        jobs[j].status \in Terminal => jobs[j].completed_at # NoTime

\* the worker's cancellation handler, whose own write carries no completed_at,
\* has written status cancelled, and completed_at is set
C21_Witness ==
    \E j \in DOMAIN jobs :
        /\ jobs[j].status = "cancelled"
        /\ jobs[j].progress_message = "Job cancelled by user"
        /\ jobs[j].completed_at # NoTime

\* ------------------------------------------------------------------ C22
\* C22: completed_at is written exactly once: once a job has a completed_at,
\* no later operation (a worker write after a cancel, a cancel after the
\* worker's terminal write) changes it.
C22_CompletedAtWrittenOnce ==
    [][\A j \in DOMAIN jobs \cap DOMAIN jobs' :
         jobs[j].completed_at # NoTime
         => jobs'[j].completed_at = jobs[j].completed_at]_vars

\* ------------------------------------------------------------------ C23
\* C23: the cancelled flag is monotonic: once it is true on a job no step
\* (a worker's status write, the stale sweep of a starting process, another
\* cancel) makes it false again while the record exists.
C23_CancelledFlagMonotonic ==
    [][\A j \in DOMAIN jobs \cap DOMAIN jobs' :
         jobs[j].cancelled => jobs'[j].cancelled]_vars

\* a run that went on after the cancel has written completed over the
\* cancelled status: the flag is still set
C23_Witness ==
    \E j \in DOMAIN jobs :
        /\ jobs[j].cancelled
        /\ jobs[j].status = "completed"

\* ------------------------------------------------------------------ C24
\* C24: a submission whose job id already has a record fails with the
\* duplicate error (409; 500 when already the upload of its blob collides) and
\* leaves the store unchanged; a submission with a fresh id succeeds and adds
\* exactly one record, with status pending.
C24_CreateJobDuplicateOrPending ==
    [][presp' # presp =>
         LET j == presp'.job_id
         IN IF j \in DOMAIN jobs
            THEN /\ jobs' = jobs
                 /\ \/ presp'.code = 409
                    \/ /\ presp'.code = 500
                       /\ \E e \in PointCloudExts : blob_name(j, e) \in blobs
            ELSE /\ presp'.code = 200
                 /\ DOMAIN jobs' = DOMAIN jobs \cup {j}
                 /\ jobs'[j].status = "pending"
                 /\ ~jobs'[j].cancelled
                 /\ \A k \in DOMAIN jobs : jobs'[k] = jobs[k]]_vars

\* the duplicate error was answered for the id of a job that had been
\* cancelled: the record is still the cancelled one, and the blob uploaded for
\* the rejected submission is gone
C24_Witness ==
    /\ presp.code = 409
    /\ presp.job_id \in DOMAIN jobs
    /\ jobs[presp.job_id].status = "cancelled"
    /\ Cardinality({e \in PointCloudExts :
                      blob_name(presp.job_id, e) \in blobs}) = 1

\* ------------------------------------------------------------------ C25
\* the ids whose submission has been answered
Submitted ==
    {j \in 1..next_id :
        /\ ~(preq.op \in {"process_point_cloud", "upload_ortho"}
             /\ preq.job_id = j)
        /\ \A r \in awaiting : r.job_id # j}

\* the end of a run that no checkpoint stopped: position -> the position that
\* follows it
RunEndBranch ==
    [p_complete |-> "p_cleanup", o_complete |-> "o_cleanup",
     p_error |-> "p_cleanup", o_error |-> "o_error_status",
     o_error_status |-> "o_cleanup",
     p_cleanup |-> "after_job", o_cleanup |-> "after_job"]

\* C25: a status update for an id that has no record changes nothing and is
\* not an error. A job the retention sweep deleted stays deleted; the run that
\* still holds it goes on, none of its writes brings the record back, and its
\* last steps follow one another and return to the loop.
C25_UpdateOfMissingJobIsNoOp ==
    [][/\ \A j \in Submitted : j \notin DOMAIN jobs => j \notin DOMAIN jobs'
       /\ \A w \in Workers :
            (Executing(w) /\ JobId(w) \notin DOMAIN jobs /\ pc'[w] # pc[w])
            => /\ jobs' = jobs
               /\ pc[w] \in DOMAIN RunEndBranch
                    => pc'[w] = RunEndBranch[pc[w]]]_vars

\* the sweep of another process has deleted the job of a run that is about to
\* write its terminal status
C25_Witness ==
    \E w \in Workers :
        /\ pc[w] \in {"p_complete", "o_complete"}
        /\ JobId(w) \notin DOMAIN jobs

\* ------------------------------------------------------------------ C26
\* C26: the stale sweep runs once per process, at its start, and is complete
\* before the worker of that process claims its first job: a process never
\* returns to its startup, the step that leaves startup leaves no job in
\* status processing and hands over to the loop with no job held, and a
\* worker takes a job only from the poll of its loop.
C26_StaleSweepBeforeFirstClaim ==
    [][\A w \in Workers :
         /\ pc'[w] = "boot" => pc[w] = "boot"
         /\ (pc[w] = "boot" /\ pc'[w] # "boot")
            => /\ pc'[w] = "loop"
               /\ wjob'[w] = NoJob
               /\ \A j \in DOMAIN jobs' : jobs'[j].status # "processing"
         /\ (wjob'[w] # wjob[w] /\ wjob'[w] # NoJob) => pc[w] = "poll"]_vars

\* a job that a run had already worked on was reset by the sweep of a
\* starting process and has been claimed again
C26_Witness ==
    \E w \in Workers :
        /\ pc[w] = "run"
        /\ JobId(w) \in DOMAIN jobs
        /\ jobs[JobId(w)].status = "processing"
        /\ jobs[JobId(w)].progress_message
             \notin {None, "Ortho conversion job queued"}

\* ------------------------------------------------------------------ C27
\* C27: the retention sweep is gated by the time of the worker's last sweep,
\* at the regular check of the loop and at the forced check after a job
\* alike: it runs when the worker has not swept yet or when at least
\* cleanup_interval_hours have passed since its last sweep, and then records
\* the time; otherwise the check deletes nothing and leaves the recorded time.
C27_SweepGatedByLastRun ==
    [][\A w \in Workers :
         (pc[w] \in {"loop", "after_job"} /\ pc'[w] # pc[w])
         => IF \/ last_cleanup_time[w] = NoTime
               \/ now - last_cleanup_time[w] >= cleanup_interval_hours * Hour
            THEN /\ jobs' = cleanup_old_jobs(jobs, RetentionHours, now)
                 /\ last_cleanup_time'[w] = now
            ELSE /\ jobs' = jobs
                 /\ last_cleanup_time' = last_cleanup_time]_vars

\* a worker that swept less than an hour ago has passed the forced check
\* after a job, and a job that has expired since is still stored
C27_Witness ==
    \E w \in Workers :
        /\ pc[w] = "loop"
        /\ \E v \in Workers : pc[v] = "after_job"
        /\ last_cleanup_time[w] = now - 1
        /\ \E j \in DOMAIN jobs :
             jobs[j].created_at < now - RetentionHours * Hour

\* ------------------------------------------------------------------ C28
\* a step of worker w that ends an aborted point-cloud run: the return of the
\* cancellation handler, or the cleanup that follows mark_failed
AbortEnds(w) ==
    /\ RunEnds(w)
    /\ wjob[w].type = "point_cloud"
    /\ \/ pc[w] = "p_cancelled_delete"
       \/ pc[w] = "p_cleanup" /\ wfiles[w].error # None

\* C28: an aborted point-cloud run is compensated by the same cleanup whether
\* it was cancelled or it failed: when the run ends its local files are gone,
\* its job file is deleted, and no output uploaded under the project's prefix
\* is left.
C28_SameCompensation ==
    [][\A w \in Workers :
         AbortEnds(w)
         => /\ wjob[w].azure_path \notin blobs'
            /\ list_blobs(pblobs', wjob[w].project_id) = {}
            /\ wfiles'[w] = NoFiles]_vars

\* ------------------------------------------------------------------ C29
\* C29: in the cancellation handlers a cleanup call that fails stops neither
\* the cleanup calls after it nor the final status write. In the point-cloud
\* handler the deletion of the job file, done or failed, is followed by the
\* listing of the output blobs; the listing, done or failed, by the deletion
\* of each listed blob; a deletion that fails by the next one; and the last of
\* them by the status write, done or failed, with which the handler returns
\* to the loop, the run's local files gone. In the ortho handler the deletion
\* of the job file is followed by the status write, done or failed, and that
\* by the cleanup.
C29_CleanupFailureIsolated ==
    [][\A w \in Workers :
         LET written ==
                 \/ /\ jobs' = update_job_status(jobs, JobId(w), "cancelled",
                                 [progress_message |-> "Job cancelled by user"],
                                 now)
                    /\ elog' = elog
                 \/ /\ jobs' = jobs
                    /\ elog'[w] = "Failed to update status to cancelled"
             listed ==
                 IF wjob[w].project_id \in DOMAIN projects
                 THEN list_blobs(pblobs, wjob[w].project_id) ELSE {}
         IN /\ (pc[w] = "p_cancelled" /\ pc'[w] # pc[w])
                 => /\ pc'[w] = "p_cancelled_list"
                    /\ \/ /\ blobs' = delete_blob(blobs, wjob[w].azure_path)
                          /\ elog' = elog
                       \/ /\ blobs' = blobs
                          /\ elog'[w] = "Failed to delete Azure job file"
            /\ (pc[w] = "p_cancelled_list" /\ pc'[w] # pc[w])
                 => /\ pc'[w] = "p_cancelled_delete"
                    /\ \/ wfiles'[w].todo = listed /\ elog' = elog
                       \/ /\ wfiles'[w].todo = {}
                          /\ elog'[w] \in
                               {"Failed to list blobs for cleanup",
                                "Failed to cleanup Potree output files"}
            /\ ( /\ pc[w] = "p_cancelled_delete"
                 /\ (pc'[w] # pc[w] \/ wfiles'[w] # wfiles[w]) )
                 => IF wfiles[w].todo = {}
                    THEN /\ pc'[w] = "after_job"
                         /\ wfiles'[w] = NoFiles
                         /\ written
                    ELSE /\ pc'[w] = "p_cancelled_delete"
                         /\ \E blob \in wfiles[w].todo :
                              /\ wfiles'[w].todo = wfiles[w].todo \ {blob}
                              /\ \/ /\ pblobs' = delete_blob(pblobs, blob)
                                    /\ elog' = elog
                                 \/ /\ pblobs' = pblobs
                                    /\ elog'[w] = "Failed to delete blob"
            /\ (pc[w] = "o_cancelled" /\ pc'[w] # pc[w])
                 => /\ pc'[w] = "o_cancelled_status"
                    /\ blobs' = delete_job_file(blobs, JobId(w))
            /\ (pc[w] = "o_cancelled_status" /\ pc'[w] # pc[w])
                 => pc'[w] = "o_cleanup" /\ written
            /\ (pc[w] = "o_cleanup" /\ pc'[w] # pc[w])
                 => pc'[w] = "after_job" /\ wfiles'[w] = NoFiles]_vars

\* the deletion of the job file failed in the handler of a cancelled run: the
\* job file is still there, the thumbnail the run had uploaded is deleted and
\* the job is marked cancelled by the handler
C29_Witness ==
    \E w \in Workers, j \in DOMAIN jobs :
        /\ pc[w] = "after_job"
        /\ elog[w] = "Failed to delete Azure job file"
        /\ jobs[j].status = "cancelled"
        /\ jobs[j].progress_message = "Job cancelled by user"
        /\ jobs[j].azure_path \in blobs
        /\ jobs[j].project_id \in DOMAIN projects
        /\ projects[jobs[j].project_id].thumbnail # None
        /\ list_blobs(pblobs, jobs[j].project_id) = {}

\* ------------------------------------------------------------------ C30
\* C30: every external command of a pipeline step is time-bounded: a worker
\* whose point-cloud conversion command never exits eventually treats the
\* step as failed and is back at the poll of its loop.
C30_HungCommandFails ==
    \A w \in Workers : (pc[w] = "p_conversion_blocked") ~> (pc[w] = "poll")

\* ------------------------------------------------------------------ C31
\* C31: the project-wide cancel never mutates a job that is completed, failed
\* or cancelled when the route's per-job cancel call reaches it, even when
\* the job reached that status after the route's scan; and the two counts of
\* its response never exceed the number of jobs it scanned.
C31_ProjectCancelSkipsTerminal ==
    [][ /\ \A j \in DOMAIN jobs :
             ( /\ pcancel.stage = "cancelling"
               /\ j \in pcancel.todo
               /\ pcancel'.todo = pcancel.todo \ {j}
               /\ jobs[j].status \in Terminal )
             => (j \in DOMAIN jobs' /\ jobs'[j] = jobs[j])
        /\ pcancel'.stage = "done"
             => Cardinality(pcancel'.cancelled_jobs) + pcancel'.skipped_count
                    <= pcancel'.total ]_vars

\* ------------------------------------------------------------------ C32
\* C32: when the cancel route's store-level update executes on a job whose
\* status has become completed or failed since the route's check, the update
\* does not change the job to cancelled; and the route answers 200 exactly
\* when the stored record is cancelled by it.
C32_CancelRaceKeepsFinished ==
    [][\A j \in JobIds :
         (creq[j] /\ ~creq'[j] /\ j \in DOMAIN jobs) =>
            /\ jobs[j].status \in {"completed", "failed"}
                 => /\ jobs'[j].status = jobs[j].status
                    /\ cresp'.code # 200
            /\ cresp'.code = 200 => jobs'[j].status = "cancelled" ]_vars

\* ------------------------------------------------------------------ C33
\* the cancellation handlers: position -> the position that follows it
CancelBranch ==
    [o_cancelled |-> "o_cancelled_status", o_cancelled_status |-> "o_cleanup",
     o_cleanup |-> "after_job", p_cancelled |-> "p_cancelled_list",
     p_cancelled_list |-> "p_cancelled_delete",
     p_cancelled_delete |-> "after_job"]

\* the positions of the handlers at which status cancelled is written
CancelledWritePcs == {"o_cancelled_status", "p_cancelled_delete"}

\* C33: once a checkpoint has seen cancelled = true, the run makes only the
\* steps of its cancellation handler, one after the other, and returns to the
\* loop without raising; the handler's status write leaves the stored status
\* of the job (when the record still exists) cancelled, and it is still
\* cancelled when the ortho handler's cleanup ends the run.
C33_ObservedCancelEndsCancelled ==
    [][\A w \in Workers :
         (pc[w] \in DOMAIN CancelBranch /\ pc'[w] # pc[w]) =>
            /\ pc'[w] = CancelBranch[pc[w]]
            /\ (pc[w] \in CancelledWritePcs /\ JobId(w) \in DOMAIN jobs')
                 => jobs'[JobId(w)].status = "cancelled"
            /\ ( /\ pc[w] = "o_cleanup"
                 /\ JobId(w) \in DOMAIN jobs'
                 /\ jobs'[JobId(w)].progress_message = "Job cancelled by user" )
                 => jobs'[JobId(w)].status = "cancelled" ]_vars

\* a handler has just returned for a job that is stored as cancelled
C33_Witness ==
    \E w \in Workers, j \in DOMAIN jobs :
        /\ pc[w] = "after_job"
        /\ jobs[j].status = "cancelled"
        /\ jobs[j].progress_message = "Job cancelled by user"

\* ------------------------------------------------------------------ C36
\* the positions at which a numbered step of a pipeline is performed: steps 1
\* to 8 of process_ortho_job and steps 1 to 9 of process_job
StepPcs ==
    {"o_download", "o_validate", "o_convert", "o_thumbnail", "o_upload",
     "o_upload_png", "o_upload_thumbnail", "o_project_get", "o_project_put",
     "o_complete", "o_cleanup",
     "p_metadata", "p_thumbnail", "p_thumbnail_upload", "p_project1",
     "p_conversion", "p_upload", "p_upload_files", "p_project2",
     "p_complete", "p_cleanup"}

\* C36: a job whose cancel update found it pending is never returned by a
\* later get_next_job, whatever restarts and stale sweeps happen in between,
\* and no worker performs a pipeline step of it.
C36_PendingCancelNeverClaimed ==
    [][\A w \in Workers :
         /\ (wjob'[w].id # 0 /\ wjob'[w].id # wjob[w].id)
              => wjob'[w].id \notin pending_cancels
         /\ (pc[w] \in StepPcs /\ pc'[w] # pc[w] /\ pc'[w] # "boot")
              => JobId(w) \notin pending_cancels ]_vars

\* ------------------------------------------------------------------ C37
\* C37: in the deployment with one worker process, once the process has made
\* its startup sweep, every job record with status processing is the job the
\* worker is executing, so there is at most one, however many records the
\* store holds.
C37_OnlyTheRunningJobIsProcessing ==
    pc[1] # "boot" =>
        /\ \A j \in DOMAIN jobs :
             jobs[j].status = "processing" => JobId(1) = j
        /\ Cardinality({j \in DOMAIN jobs : jobs[j].status = "processing"}) <= 1

\* the store holds two records: the worker has claimed again the job that an
\* earlier run, ended by a kill, had left in status processing, and the other
\* job waits in status pending
C37_Witness ==
    /\ pc[1] = "run"
    /\ JobId(1) \in DOMAIN jobs
    /\ jobs[JobId(1)].status = "processing"
    /\ jobs[JobId(1)].progress_message \notin {None, "Ortho conversion job queued"}
    /\ \E k \in DOMAIN jobs : k # JobId(1) /\ jobs[k].status = "pending"

\* ------------------------------------------------------------------ C38
\* C38: every job record whose status is cancelled has its cancelled flag set.
C38_CancelledStatusHasFlag ==
    \A j \in DOMAIN jobs : jobs[j].status = "cancelled" => jobs[j].cancelled

\* a job whose status cancelled was written by a worker's cancellation handler
C38_Witness ==
    \E j \in DOMAIN jobs :
        /\ jobs[j].status = "cancelled"
        /\ jobs[j].cancelled
        /\ jobs[j].progress_message = "Job cancelled by user"
        /\ jobs[j].updated_at # jobs[j].completed_at

\* ------------------------------------------------------------------ C40
\* the positions of the loop at which _check_and_run_cleanup is called
CleanupPcs == {"loop", "after_job"}

\* C40: a step of _check_and_run_cleanup whose gate is open either sweeps and
\* records the time, or, when the sweep raises, logs the error and leaves the
\* store and last_cleanup_time as they were, so that the gate is still open at
\* the next check; and last_cleanup_time changes in no other step than a
\* sweep that succeeded.
C40_FailedSweepKeepsTimestamp ==
    [][\A w \in Workers :
         /\ ( /\ pc[w] \in CleanupPcs
              /\ pc'[w] # pc[w]
              /\ should_cleanup(last_cleanup_time[w], pc[w] = "after_job", now) )
            => \/ /\ last_cleanup_time'[w] = now
                  /\ jobs' = cleanup_old_jobs(jobs, RetentionHours, now)
                  /\ elog'[w] = elog[w]
               \/ /\ last_cleanup_time'[w] = last_cleanup_time[w]
                  /\ jobs' = jobs
                  /\ elog'[w] = "Error during job cleanup"
                  /\ should_cleanup(last_cleanup_time'[w], FALSE, now')
         /\ last_cleanup_time'[w] # last_cleanup_time[w]
            => /\ pc[w] \in CleanupPcs
               /\ last_cleanup_time'[w] = now
               /\ jobs' = cleanup_old_jobs(jobs, RetentionHours, now) ]_vars

\* a sweep failed, and a later check of the same worker swept and recorded
\* its time
C40_Witness ==
    \E w \in Workers :
        /\ elog[w] = "Error during job cleanup"
        /\ last_cleanup_time[w] # NoTime

\* ------------------------------------------------------------------ C39
\* the blobs the artifact references persisted on project p point to
ReferencedBlobs(p) ==
    (IF projects[p].thumbnail # None
     THEN {project_blob(p, "thumbnail.png")} ELSE {})
    \cup (IF projects[p].cloud # None
          THEN {project_blob(p, "metadata.json")} ELSE {})

\* the positions of the cancellation cleanup of a point-cloud job
CancelCleanupPcs == {"p_cancelled", "p_cancelled_list", "p_cancelled_delete"}

\* C39: the cancellation cleanup of a point-cloud job leaves in place every
\* blob that an artifact reference persisted on a project points to: a
\* referenced blob that exists before a step of the cleanup exists after it.
C39_CancelCleanupKeepsReferenced ==
    [][\A w \in Workers :
         ( /\ pc[w] \in CancelCleanupPcs
           /\ (pc'[w] # pc[w] \/ wfiles'[w] # wfiles[w]) ) =>
            \A p \in DOMAIN projects :
                (ReferencedBlobs(p) \cap pblobs) \subseteq pblobs' ]_vars

\* ------------------------------------------------------------------ C34
\* C34: with a worker that keeps running, steps that terminate and store
\* calls that succeed, a job in status processing eventually is in a terminal
\* status or has been deleted by the retention sweep.
C34_ProcessingEventuallyEnds ==
    \A j \in JobIds :
        (j \in DOMAIN jobs /\ jobs[j].status = "processing")
            ~> (j \notin DOMAIN jobs \/ jobs[j].status \in Terminal)

\* a run has ended with its job completed and the worker is back at its poll
C34_Witness ==
    \E j \in DOMAIN jobs :
        /\ jobs[j].status = "completed"
        /\ pc[1] = "sleep"

\* ------------------------------------------------------------------ C35
\* C35: with one running worker whose runs terminate, a job in status pending
\* eventually is held by the worker, unless it is cancelled or deleted by the
\* retention sweep first.
C35_PendingEventuallyClaimed ==
    \A j \in JobIds :
        (j \in DOMAIN jobs /\ jobs[j].status = "pending")
            ~> \/ Holders(j) # {}
               \/ j \notin DOMAIN jobs
               \/ jobs[j].cancelled

\* the worker holds the second job of the queue after the run of the first
\* one has ended
C35_Witness ==
    \E j, k \in DOMAIN jobs :
        /\ jobs[j].created_at <= jobs[k].created_at
        /\ j # k
        /\ jobs[j].status \in {"completed", "failed"}
        /\ Holders(k) # {}

====
